---------------------------- MODULE Spec2Model ----------------------------
(***************************************************************************)
(* A model of the MIPS simulator of "Systems Programming/Project 5".       *)
(*                                                                         *)
(* The repository holds two cores:                                         *)
(*   - class MIPS (MIPS.cpp) with the latch pipeline of Pipeline.cpp and   *)
(*     the hazard unit of HazardDetection.cpp;                             *)
(*   - class MIPSSimulator (mips_simulator.cpp) with its own five-entry    *)
(*     pipeline_stages vector.                                             *)
(* Both are modelled, each from its own source.                            *)
(*                                                                         *)
(* uint32_t values.  TLC's integers are 32-bit signed, so a uint32_t v is  *)
(* held as its two's-complement image: v itself below 2^31 and v - 2^32    *)
(* from 2^31 on.  All arithmetic is done on 16-bit halves and is exact     *)
(* modulo 2^32.                                                            *)
(***************************************************************************)
EXTENDS Integers, Sequences, FiniteSets, TLC

VARIABLES
    mips,       \* the MIPS object: registers, memory, pc, counters, flags
    pipeline,   \* the Pipeline object (MIPS::pipeline): latches, hazard unit
    lastTick,   \* what the last Pipeline::tick did: early return, EX locals
    fed,        \* the instructions handed to Pipeline::tick so far
    sim,        \* the MIPSSimulator object
    call,       \* the last API call of the driver and what it returned
    predictor   \* the branch predictor object a driver owns

vars == <<mips, pipeline, lastTick, fed, sim, call, predictor>>

---------------------------------------------------------------------------
(* uint32_t arithmetic on two's-complement images *)

Hi(x) == x \div 65536
Lo(x) == x % 65536
UHi(x) == Hi(x) % 65536

\* the image of the word with upper half hi (any integer, taken modulo 2^16)
\* and lower half lo (0..65535)
Mk32(hi, lo) == ((((hi % 65536) + 32768) % 65536) - 32768) * 65536 + lo

Add32(a, b) ==
    LET l == Lo(a) + Lo(b)
    IN  Mk32(Hi(a) + Hi(b) + (l \div 65536), l % 65536)

Not32(a) == (-1) - a

Sub32(a, b) == Add32(a, Add32(Not32(b), 1))

RECURSIVE And16(_, _, _)
And16(x, y, n) ==
    IF n = 0 THEN 0
    ELSE (x % 2) * (y % 2) + 2 * And16(x \div 2, y \div 2, n - 1)

And32(a, b) == Mk32(And16(UHi(a), UHi(b), 16), And16(Lo(a), Lo(b), 16))

Or32(a, b) == Not32(And32(Not32(a), Not32(b)))

\* unsigned a < b
ULt(a, b) == IF (a < 0) = (b < 0) THEN a < b ELSE b < 0

\* x << 2
Shl2(x) == LET d == Add32(x, x) IN Add32(d, d)

\* the four bytes of a word, most significant first, and back
\* a variant of Byte0 that takes the least significant byte
Byte0_low(v) == Lo(v) % 256
Byte0(v) == UHi(v) \div 256
Byte1(v) == UHi(v) % 256
Byte2(v) == Lo(v) \div 256
Byte3(v) == Lo(v) % 256
FromBytes(b0, b1, b2, b3) == Mk32(b0 * 256 + b1, b2 * 256 + b3)

\* machine words of the three MIPS formats (inputs of the driver)
EncR(rs, rt, rd, shamt, funct) == Mk32(rs * 32 + rt, rd * 2048 + shamt * 64 + funct)
EncI(opcode, rs, rt, imm) == Mk32(opcode * 1024 + rs * 32 + rt, imm)
EncJ(opcode, target) == Mk32(opcode * 1024 + (target \div 65536), target % 65536)

---------------------------------------------------------------------------
(* Byte memories.  A std::vector<uint8_t> of `size` zero-initialised bytes *)
(* is held sparsely: a function from the addresses of its non-zero bytes.  *)

EmptyMemory == [a \in {} |-> 0]

memoryAt(mem, a) == IF a \in DOMAIN mem THEN mem[a] ELSE 0

memoryPut(mem, a, b) ==
    IF b = 0 THEN [x \in DOMAIN mem \ {a} |-> mem[x]]
    ELSE [x \in DOMAIN mem \cup {a} |-> IF x = a THEN b ELSE mem[x]]

\* address + 3 < memory.size(), the sum taken in uint32_t
wordInRange(address, size) ==
    LET a3 == Add32(address, 3) IN a3 >= 0 /\ a3 < size

readWord(mem, address) ==
    FromBytes(memoryAt(mem, address), memoryAt(mem, address + 1),
              memoryAt(mem, address + 2), memoryAt(mem, address + 3))

writeWord(mem, address, value) ==
    memoryPut(memoryPut(memoryPut(memoryPut(mem,
        address, Byte0(value)), address + 1, Byte1(value)),
        address + 2, Byte2(value)), address + 3, Byte3(value))

---------------------------------------------------------------------------
(* Instruction (Instruction.hpp, Instruction.cpp) *)

\* InstructionDecoder::getInstructionFormat
getInstructionFormat(opcode, funct) ==
    IF opcode = 0 THEN
        CASE funct = 32 -> "ADD"
          [] funct = 34 -> "SUB"
          [] funct = 36 -> "AND"
          [] funct = 37 -> "OR"
          [] funct = 39 -> "NOR"
          [] funct = 42 -> "SLT"
          [] funct = 0  -> "SLL"
          [] funct = 2  -> "SRL"
          [] funct = 3  -> "SRA"
          [] funct = 8  -> "JR"
          [] funct = 9  -> "JALR"
          [] OTHER -> "UNKNOWN"
    ELSE
        CASE opcode = 8  -> "ADDI"
          [] opcode = 12 -> "ANDI"
          [] opcode = 13 -> "ORI"
          [] opcode = 14 -> "XORI"
          [] opcode = 10 -> "SLTI"
          [] opcode = 35 -> "LW"
          [] opcode = 33 -> "LH"
          [] opcode = 32 -> "LB"
          [] opcode = 36 -> "LBU"
          [] opcode = 37 -> "LHU"
          [] opcode = 43 -> "SW"
          [] opcode = 41 -> "SH"
          [] opcode = 40 -> "SB"
          [] opcode = 4  -> "BEQ"
          [] opcode = 5  -> "BNE"
          [] opcode = 6  -> "BLEZ"
          [] opcode = 7  -> "BGTZ"
          [] opcode = 15 -> "LUI"
          [] opcode = 2  -> "J"
          [] opcode = 3  -> "JAL"
          [] OTHER -> "UNKNOWN"

\* Instruction::Instruction(): the default-constructed instruction, a NOP
DefaultInstruction ==
    [machineCode |-> 0, type |-> "R_TYPE", format |-> "NOP",
     rs |-> 0, rt |-> 0, rd |-> 0, shamt |-> 0, funct |-> 0,
     immediate |-> 0, signedImmediate |-> 0, jumpTarget |-> 0, opcode |-> 0]

\* Instruction::Instruction(machineCode, address) and Instruction::decode.
\* decode assigns only the fields of the instruction's own format; the
\* others are left unassigned by this constructor and are read by no
\* decision of the pipeline; they are held as 0.
decode(machineCode) ==
    LET opcode == UHi(machineCode) \div 1024
        blank == [DefaultInstruction EXCEPT !.machineCode = machineCode,
                                            !.opcode = opcode]
    IN  IF opcode = 0 THEN
            [blank EXCEPT !.type = "R_TYPE",
                          !.rs = (UHi(machineCode) \div 32) % 32,
                          !.rt = UHi(machineCode) % 32,
                          !.rd = Lo(machineCode) \div 2048,
                          !.shamt = (Lo(machineCode) \div 64) % 32,
                          !.funct = Lo(machineCode) % 64,
                          !.format = getInstructionFormat(0, Lo(machineCode) % 64)]
        ELSE IF opcode = 2 \/ opcode = 3 THEN
            [blank EXCEPT !.type = "J_TYPE",
                          !.jumpTarget = (UHi(machineCode) % 1024) * 65536 + Lo(machineCode),
                          !.format = IF opcode = 2 THEN "J" ELSE "JAL"]
        ELSE
            [blank EXCEPT !.type = "I_TYPE",
                          !.rs = (UHi(machineCode) \div 32) % 32,
                          !.rt = UHi(machineCode) % 32,
                          !.immediate = Lo(machineCode),
                          !.signedImmediate = IF Lo(machineCode) >= 32768
                                              THEN Lo(machineCode) - 65536
                                              ELSE Lo(machineCode),
                          !.format = getInstructionFormat(opcode, 0)]

isBranch(i) == i.format \in {"BEQ", "BNE", "BLEZ", "BGTZ", "BLTZ", "BGEZ"}
isJump(i) == i.format \in {"J", "JAL", "JR", "JALR"}
isLoad(i) == i.format \in {"LW", "LH", "LB", "LBU", "LHU"}
isStore(i) == i.format \in {"SW", "SH", "SB"}
usesRS(i) == i.type = "I_TYPE" \/ (i.type = "R_TYPE" /\ i.format # "NOP")
usesRT(i) ==
    \/ (i.type = "R_TYPE" /\ i.format # "JR")
    \/ (i.type = "I_TYPE" /\ ~isLoad(i) /\ i.format # "LUI")
writesRD(i) == i.type = "R_TYPE" /\ i.format # "JR" /\ i.format # "NOP"
writesRT(i) ==
    i.type = "I_TYPE" /\ (isLoad(i) \/ i.format \in {"ADDI", "ANDI", "ORI", "LUI"})

---------------------------------------------------------------------------
(* HazardDetection (HazardDetection.cpp) *)

\* HazardDetection::HazardDetection
NewHazardDetection ==
    [forwardingPaths |-> << >>, dataHazards |-> 0, controlHazards |-> 0,
     structuralHazards |-> 0, forwardingEvents |-> 0, stallsInserted |-> 0]

\* HazardDetection::detectDataHazard.  `previous.valid` is the valid flag of
\* the latch the instruction is taken from (PipelineStage::valid), the only
\* validity the sources define.
detectDataHazard(current, previous, previousValid) ==
    IF ~previousValid THEN FALSE
    ELSE IF writesRD(previous) \/ writesRT(previous) THEN
        LET writeReg == IF writesRD(previous) THEN previous.rd ELSE previous.rt
        IN  \/ (usesRS(current) /\ current.rs = writeReg)
            \/ (usesRT(current) /\ current.rt = writeReg)
    ELSE FALSE

detectControlHazard(instruction) == isBranch(instruction) \/ isJump(instruction)

\* HazardDetection::detectHazard: the hazard type and the unit with its
\* counters advanced
detectHazard(hu, current, inEX, inMEM, inWB) ==
    IF \/ detectDataHazard(current, inEX.instruction, inEX.valid)
       \/ detectDataHazard(current, inMEM.instruction, inMEM.valid)
       \/ detectDataHazard(current, inWB.instruction, inWB.valid)
    THEN [hazard |-> "DATA_HAZARD_RAW",
          hu |-> [hu EXCEPT !.dataHazards = @ + 1]]
    ELSE IF detectControlHazard(current)
    THEN [hazard |-> "CONTROL_HAZARD",
          hu |-> [hu EXCEPT !.controlHazards = @ + 1]]
    ELSE [hazard |-> "NONE", hu |-> hu]

\* HazardDetection::setupForwarding
setupForwarding(hu, reg, sourceStage, value) ==
    [hu EXCEPT !.forwardingPaths =
        Append(@, [enable |-> TRUE, sourceStage |-> sourceStage,
                   targetStage |-> 2, reg |-> reg, value |-> value])]

\* HazardDetection::getForwardedValue: the first path of the register
RECURSIVE firstPath(_, _, _, _)
firstPath(paths, k, reg, defaultValue) ==
    IF k > Len(paths) THEN defaultValue
    ELSE IF paths[k].enable /\ paths[k].reg = reg THEN paths[k].value
    ELSE firstPath(paths, k + 1, reg, defaultValue)

getForwardedValue(hu, reg, defaultValue) ==
    firstPath(hu.forwardingPaths, 1, reg, defaultValue)

\* HazardDetection::detectLoadUseHazard
detectLoadUseHazard(load, use) ==
    IF ~isLoad(load) THEN FALSE
    ELSE \/ (usesRS(use) /\ use.rs = load.rt)
         \/ (usesRT(use) /\ use.rt = load.rt)

\* HazardDetection::shouldStall: the decision and the unit with
\* stallsInserted advanced
shouldStall(hu, current, inEX) ==
    IF detectLoadUseHazard(inEX, current)
    THEN [stall |-> TRUE, hu |-> [hu EXCEPT !.stallsInserted = @ + 1]]
    ELSE [stall |-> FALSE, hu |-> hu]

\* HazardDetection::shouldFlush
shouldFlush(branch) == isBranch(branch) \/ isJump(branch)

---------------------------------------------------------------------------
(* Pipeline (Pipeline.hpp, Pipeline.cpp) *)

\* memory(0x100000, 0): the size of the MIPS object's memory vector
MIPS_MEMORY_SIZE == 1048576

\* PipelineStage::PipelineStage.  The constructor leaves pc, aluResult,
\* memoryData, writeData and writeReg unassigned; every read of them by the
\* stages follows an assignment, and they are held as 0 until then.
NewPipelineStage ==
    [valid |-> FALSE, instruction |-> DefaultInstruction, pc |-> 0,
     aluResult |-> 0, memoryData |-> 0, writeData |-> 0, writeReg |-> 0,
     regWrite |-> FALSE, memRead |-> FALSE, memWrite |-> FALSE,
     branch |-> FALSE, jump |-> FALSE]

\* Pipeline::Pipeline
NewPipeline ==
    [IF_ID |-> NewPipelineStage, ID_EX |-> NewPipelineStage,
     EX_MEM |-> NewPipelineStage, MEM_WB |-> NewPipelineStage,
     hazardUnit |-> NewHazardDetection,
     stall |-> FALSE, flush |-> FALSE, stallCycles |-> 0, flushCycles |-> 0]

\* the EX stage's locals op1, op2 and taken of a tick in which EX did not run
NoEX == [exRan |-> FALSE, op1 |-> 0, op2 |-> 0, taken |-> FALSE]

\* Pipeline::getMemoryWord
Pipeline_getMemoryWord(memory, address) ==
    IF wordInRange(address, MIPS_MEMORY_SIZE) THEN readWord(memory, address) ELSE 0

\* Pipeline::setMemoryWord
Pipeline_setMemoryWord(memory, address, value) ==
    IF wordInRange(address, MIPS_MEMORY_SIZE) THEN writeWord(memory, address, value)
    ELSE memory

\* Pipeline::performALU
performALU(op1, op2, format) ==
    CASE format \in {"ADD", "ADDI", "LW", "SW"} -> Add32(op1, op2)
      [] format = "SUB" -> Sub32(op1, op2)
      [] format \in {"AND", "ANDI"} -> And32(op1, op2)
      [] format \in {"OR", "ORI"} -> Or32(op1, op2)
      [] format = "NOR" -> Not32(Or32(op1, op2))
      [] format \in {"SLT", "SLTI"} -> IF op1 < op2 THEN 1 ELSE 0
      [] OTHER -> 0

(* The stages work on a context c: the pipeline object c.p, the register  *)
(* and memory vectors handed to tick by reference, and the EX locals c.ex *)

\* Pipeline::executeWB
executeWB(c) ==
    IF c.p.MEM_WB.valid /\ c.p.MEM_WB.regWrite THEN
        LET wb == c.p.MEM_WB
            c1 == IF wb.writeReg # 0
                  THEN [c EXCEPT !.registers[wb.writeReg] = wb.writeData,
                                 !.p.hazardUnit =
                                     setupForwarding(@, wb.writeReg, 4, wb.writeData)]
                  ELSE c
        IN  [c1 EXCEPT !.p.MEM_WB.valid = FALSE]
    ELSE c

\* Pipeline::executeMEM
executeMEM(c) ==
    IF c.p.EX_MEM.valid THEN
        LET instr == c.p.EX_MEM.instruction
            address == c.p.EX_MEM.aluResult
            moved == [c.p.EX_MEM EXCEPT !.valid = TRUE]
            c1 == IF isLoad(instr) THEN
                      LET data == Pipeline_getMemoryWord(c.memory, address)
                      IN  [c EXCEPT !.p.MEM_WB =
                              [moved EXCEPT !.memoryData = data, !.writeData = data]]
                  ELSE IF isStore(instr) THEN
                      [c EXCEPT !.p.MEM_WB = moved,
                                !.memory = Pipeline_setMemoryWord(@, address,
                                               c.registers[instr.rt])]
                  ELSE
                      [c EXCEPT !.p.MEM_WB = [moved EXCEPT !.writeData = address]]
        IN  [c1 EXCEPT !.p.EX_MEM.valid = FALSE]
    ELSE c

\* Pipeline::executeEX.  `registers` names no member of Pipeline; it is read
\* as the register vector handed to tick, the one executeWB and executeID use.
executeEX(c) ==
    IF c.p.ID_EX.valid THEN
        LET instr == c.p.ID_EX.instruction
            r1 == c.registers[instr.rs]
            r2 == IF instr.type = "I_TYPE" THEN instr.signedImmediate
                  ELSE c.registers[instr.rt]
            op1 == getForwardedValue(c.p.hazardUnit, instr.rs, r1)
            op2 == IF instr.type = "R_TYPE"
                   THEN getForwardedValue(c.p.hazardUnit, instr.rt, r2)
                   ELSE r2
            taken == /\ isBranch(instr)
                     /\ CASE instr.format = "BEQ" -> op1 = op2
                          [] instr.format = "BNE" -> op1 # op2
                          [] OTHER -> FALSE
        IN  [c EXCEPT !.p.EX_MEM = [c.p.ID_EX EXCEPT !.valid = TRUE,
                                       !.aluResult = performALU(op1, op2, instr.format)],
                      !.p.flush = IF taken THEN TRUE ELSE @,
                      !.p.ID_EX.valid = FALSE,
                      !.ex = [exRan |-> TRUE, op1 |-> op1, op2 |-> op2, taken |-> taken]]
    ELSE c

\* Pipeline::executeID
executeID(c) ==
    IF c.p.flush THEN [c EXCEPT !.p.ID_EX.valid = FALSE]
    ELSE IF c.p.IF_ID.valid THEN
        LET instr == c.p.IF_ID.instruction
        IN  [c EXCEPT !.p.ID_EX =
                [c.p.IF_ID EXCEPT
                    !.valid = TRUE,
                    !.regWrite = writesRD(instr) \/ writesRT(instr),
                    !.memRead = isLoad(instr),
                    !.memWrite = isStore(instr),
                    !.branch = isBranch(instr),
                    !.jump = isJump(instr),
                    !.writeReg = IF writesRD(instr) THEN instr.rd
                                 ELSE IF writesRT(instr) THEN instr.rt
                                 ELSE @],
                      !.p.IF_ID.valid = FALSE]
    ELSE c

\* Pipeline::executeIF
executeIF(c, instruction, pc) ==
    IF ~c.p.stall
    THEN [c EXCEPT !.p.IF_ID.valid = TRUE,
                   !.p.IF_ID.instruction = instruction,
                   !.p.IF_ID.pc = pc]
    ELSE c

\* Pipeline::flushPipeline
flushPipeline(p) ==
    [p EXCEPT !.IF_ID.valid = FALSE, !.ID_EX.valid = FALSE, !.flush = TRUE]

\* Pipeline::stallPipeline
stallPipeline(p) == [p EXCEPT !.stall = TRUE]

\* Pipeline::tick: the pipeline, the registers and the memory after the
\* call, the locals of its EX stage, and whether it returned early on a stall
tick(p, registers, memory, fetchedInstruction, pc) ==
    LET h == detectHazard(p.hazardUnit, fetchedInstruction,
                          p.ID_EX, p.EX_MEM, p.MEM_WB)
        st == IF h.hazard = "DATA_HAZARD_RAW"
              THEN shouldStall(h.hu, fetchedInstruction, p.ID_EX.instruction)
              ELSE [stall |-> FALSE, hu |-> h.hu]
        p1 == [p EXCEPT !.hazardUnit = st.hu]
    IN  IF st.stall THEN
            [p |-> [stallPipeline(p1) EXCEPT !.stallCycles = @ + 1],
             registers |-> registers, memory |-> memory, ex |-> NoEX,
             stalled |-> TRUE]
        ELSE
            LET p2 == IF h.hazard = "CONTROL_HAZARD" /\ shouldFlush(p1.ID_EX.instruction)
                      THEN [flushPipeline(p1) EXCEPT !.flushCycles = @ + 1]
                      ELSE p1
                c0 == [p |-> p2, registers |-> registers, memory |-> memory, ex |-> NoEX]
                c5 == executeIF(executeID(executeEX(executeMEM(executeWB(c0)))),
                                fetchedInstruction, pc)
            IN  [p |-> [c5.p EXCEPT !.stall = FALSE, !.flush = FALSE],
                 registers |-> c5.registers, memory |-> c5.memory, ex |-> c5.ex,
                 stalled |-> FALSE]

---------------------------------------------------------------------------
(* MIPS (MIPS.cpp) *)

\* pc(0x400000): the address programs are loaded at
TEXT_BASE == 4194304
\* registers[29] = 0x7fffeffc
SP_INIT == 2147479548
\* registers[28] = 0x10008000
GP_INIT == 268468224

\* the register vector as the constructor and reset leave it
InitialRegisters ==
    [r \in 0..31 |-> IF r = 29 THEN SP_INIT ELSE IF r = 28 THEN GP_INIT ELSE 0]

\* MIPS::MIPS.  instructions is held as the sequence of its machine words.
NewMIPS ==
    [registers |-> InitialRegisters, pc |-> TEXT_BASE, memory |-> EmptyMemory,
     stepMode |-> FALSE, pipelineEnabled |-> TRUE,
     cycleCount |-> 0, instructionCount |-> 0, instructions |-> << >>]

\* MIPS::getMemoryWord
MIPS_getMemoryWord(m, address) ==
    IF wordInRange(address, MIPS_MEMORY_SIZE) THEN readWord(m.memory, address) ELSE 0

\* MIPS::setMemoryWord
MIPS_setMemoryWord(m, address, value) ==
    IF wordInRange(address, MIPS_MEMORY_SIZE)
    THEN [m EXCEPT !.memory = writeWord(@, address, value)]
    ELSE m

\* the loop of MIPS::loadProgram that stores the machine words from addr on
RECURSIVE storeWords(_, _, _, _)
storeWords(m, words, k, addr) ==
    IF k > Len(words) THEN m
    ELSE storeWords(MIPS_setMemoryWord(m, addr, words[k]), words, k + 1,
                    Add32(addr, 4))

\* MIPS::loadProgram, given the machine words assembleProgram produced
loadProgram(m, words) ==
    [storeWords([m EXCEPT !.instructions = words], words, 1, TEXT_BASE)
        EXCEPT !.pc = TEXT_BASE, !.cycleCount = 0, !.instructionCount = 0]

\* MIPS::reset (the pipeline member is replaced by the action)
reset(m) ==
    [m EXCEPT !.registers = InitialRegisters, !.memory = EmptyMemory,
              !.pc = TEXT_BASE, !.cycleCount = 0, !.instructionCount = 0]

\* pc >= 0x400000 + instructions.size() * 4, compared in size_t
programEnded(m) == m.pc < 0 \/ m.pc >= TEXT_BASE + Len(m.instructions) * 4

\* (pc & 0xF0000000) | (jumpTarget << 2)
jumpAddress(pc, jumpTarget) == Or32(And32(pc, Mk32(61440, 0)), Shl2(jumpTarget))

\* pc + 4 + (signedImmediate << 2)
branchAddress(pc, signedImmediate) == Add32(Add32(pc, 4), Shl2(signedImmediate))

\* MIPS::executeSingleCycle
executeSingleCycle(m, instr) ==
    LET R == m.registers
        f == instr.format
        ea == Add32(R[instr.rs], instr.signedImmediate)
        m1 == CASE f = "ADD" -> [m EXCEPT !.registers[instr.rd] = Add32(R[instr.rs], R[instr.rt])]
                [] f = "SUB" -> [m EXCEPT !.registers[instr.rd] = Sub32(R[instr.rs], R[instr.rt])]
                [] f = "AND" -> [m EXCEPT !.registers[instr.rd] = And32(R[instr.rs], R[instr.rt])]
                [] f = "OR" -> [m EXCEPT !.registers[instr.rd] = Or32(R[instr.rs], R[instr.rt])]
                [] f = "NOR" -> [m EXCEPT !.registers[instr.rd] = Not32(Or32(R[instr.rs], R[instr.rt]))]
                [] f = "SLT" -> [m EXCEPT !.registers[instr.rd] = IF R[instr.rs] < R[instr.rt] THEN 1 ELSE 0]
                [] f = "ADDI" -> [m EXCEPT !.registers[instr.rt] = ea]
                [] f = "ANDI" -> [m EXCEPT !.registers[instr.rt] = And32(R[instr.rs], instr.immediate)]
                [] f = "ORI" -> [m EXCEPT !.registers[instr.rt] = Or32(R[instr.rs], instr.immediate)]
                [] f = "LW" -> [m EXCEPT !.registers[instr.rt] = MIPS_getMemoryWord(m, ea)]
                [] f = "SW" -> MIPS_setMemoryWord(m, ea, R[instr.rt])
                [] f = "JAL" -> [m EXCEPT !.registers[31] = Add32(m.pc, 8)]
                [] OTHER -> m
        nextPC == CASE f = "BEQ" -> IF R[instr.rs] = R[instr.rt]
                                    THEN branchAddress(m.pc, instr.signedImmediate)
                                    ELSE Add32(m.pc, 4)
                    [] f = "BNE" -> IF R[instr.rs] # R[instr.rt]
                                    THEN branchAddress(m.pc, instr.signedImmediate)
                                    ELSE Add32(m.pc, 4)
                    [] f \in {"J", "JAL"} -> jumpAddress(m.pc, instr.jumpTarget)
                    [] f = "JR" -> R[instr.rs]
                    [] OTHER -> Add32(m.pc, 4)
    IN  [m1 EXCEPT !.registers[0] = 0, !.pc = nextPC]

\* a variant of countStep that forgets cycleCount++
countStep_noCycleCount(m, instr) ==
    [m EXCEPT !.instructionCount = IF instr.format # "NOP" THEN @ + 1 ELSE @]

\* the counters at the end of MIPS::step
countStep(m, instr) ==
    [m EXCEPT !.cycleCount = @ + 1,
              !.instructionCount = IF instr.format # "NOP" THEN @ + 1 ELSE @]

\* MIPS::step: the object, its pipeline member, and what the tick did
\* (ticked is FALSE when Pipeline::tick was not called)
step(m, p) ==
    IF programEnded(m) THEN
        [m |-> m, p |-> p, ticked |-> FALSE, instr |-> DefaultInstruction,
         ex |-> NoEX, stalled |-> FALSE]
    ELSE
        LET instr == decode(MIPS_getMemoryWord(m, m.pc))
        IN  IF m.pipelineEnabled THEN
                LET t == tick(p, m.registers, m.memory, instr, m.pc)
                IN  [m |-> countStep([m EXCEPT !.registers = t.registers,
                                               !.memory = t.memory], instr),
                     p |-> t.p, ticked |-> TRUE, instr |-> instr,
                     ex |-> t.ex, stalled |-> t.stalled]
            ELSE
                [m |-> countStep(executeSingleCycle(m, instr), instr),
                 p |-> p, ticked |-> FALSE, instr |-> instr,
                 ex |-> NoEX, stalled |-> FALSE]

\* MIPS::setRegister
setRegister(m, reg, value) ==
    IF reg > 0 /\ reg < 32 THEN [m EXCEPT !.registers[reg] = value] ELSE m

\* MIPS::setPC
setPC(m, value) == [m EXCEPT !.pc = value]

\* MIPS::enablePipeline
enablePipeline(m, enable) == [m EXCEPT !.pipelineEnabled = enable]

---------------------------------------------------------------------------
(* ALU (alu.cpp) *)

\* ALU::detectOverflow
detectOverflow(a, b, result, is_sub) ==
    LET b1 == IF is_sub THEN Add32(Not32(b), 1) ELSE b
    IN  ((a < 0) = (b1 < 0)) /\ ((a < 0) # (result < 0))

\* ALU::execute(operand1, operand2, op)
ALU_execute(operand1, operand2, op) ==
    LET value == CASE op = "ADD" -> Add32(operand1, operand2)
                   [] op = "SUB" -> Sub32(operand1, operand2)
                   [] op = "AND" -> And32(operand1, operand2)
                   [] op = "OR" -> Or32(operand1, operand2)
                   [] op = "XOR" -> Sub32(Or32(operand1, operand2),
                                          And32(operand1, operand2))
                   [] op = "NOR" -> Not32(Or32(operand1, operand2))
                   [] op = "SLT" -> IF operand1 < operand2 THEN 1 ELSE 0
                   [] op = "SLTU" -> IF ULt(operand1, operand2) THEN 1 ELSE 0
                   [] OTHER -> 0
    IN  [value |-> value,
         overflow |-> CASE op = "ADD" -> detectOverflow(operand1, operand2, value, FALSE)
                        [] op = "SUB" -> detectOverflow(operand1, operand2, value, TRUE)
                        [] OTHER -> FALSE,
         carry |-> CASE op = "ADD" -> ULt(value, operand1)
                     [] op = "SUB" -> ULt(operand1, operand2)
                     [] OTHER -> FALSE,
         zero |-> value = 0]

---------------------------------------------------------------------------
(* MIPSSimulator (mips_simulator.cpp, instruction_decoder.hpp) *)

\* memory(65536, 0)
SIM_MEMORY_SIZE == 65536

\* namespace MIPS of instruction_decoder.hpp
FUNCT_ADD == 32
FUNCT_SUB == 34
FUNCT_AND == 36
FUNCT_OR == 37
FUNCT_SLT == 40
FUNCT_JR == 8
OPCODE_ADDI == 8
OPCODE_LW == 35
OPCODE_SW == 43
OPCODE_BEQ == 4
OPCODE_BNE == 5
OPCODE_J == 2
OPCODE_JAL == 3

\* MIPSSimulator::initializePipeline: pipeline_stages[0..4]
initializePipeline ==
    [i \in 0..4 |-> [instruction |-> 0, pc |-> 0, valid |-> FALSE,
                     stall |-> FALSE, flush |-> FALSE]]

\* branch_stats = {0, 0, 0}
NewSimBranchStats ==
    [total_branches |-> 0, correct_predictions |-> 0, incorrect_predictions |-> 0]

\* MIPSSimulator::MIPSSimulator.  branch_history_table, a std::map, is the
\* function from the keys it holds.
NewSim ==
    [registers |-> [r \in 0..31 |-> 0], memory |-> EmptyMemory, pc |-> 0,
     halted |-> FALSE, step_mode |-> FALSE, pipeline_enabled |-> FALSE,
     pipeline_stages |-> initializePipeline,
     branch_prediction_enabled |-> FALSE, prediction_type |-> "static",
     branch_history_table |-> [k \in {} |-> FALSE],
     branch_stats |-> NewSimBranchStats]

\* MIPSSimulator::enableBranchPrediction
enableBranchPrediction(s, enable, type) ==
    [s EXCEPT !.branch_prediction_enabled = enable, !.prediction_type = type]

\* MIPSSimulator::predictBranch: the object after the call (operator[] of
\* the map inserts the key it does not find) and the value returned
predictBranch(s, pc) ==
    IF s.prediction_type = "static" THEN [sim |-> s, ret |-> FALSE]
    ELSE IF s.prediction_type = "dynamic" THEN
        LET table == s.branch_history_table
            found == [k \in DOMAIN table \cup {pc} |->
                        IF k \in DOMAIN table THEN table[k] ELSE FALSE]
        IN  [sim |-> [s EXCEPT !.branch_history_table = found], ret |-> found[pc]]
    ELSE [sim |-> s, ret |-> FALSE]

\* MIPSSimulator::updateBranchPredictor
updateBranchPredictor(s, pc, taken) ==
    IF s.prediction_type = "dynamic"
    THEN [s EXCEPT !.branch_history_table =
            [k \in DOMAIN @ \cup {pc} |-> IF k = pc THEN taken ELSE @[k]]]
    ELSE s

\* the statistics block of the BEQ and BNE cases of executeInstruction
scoreBranch(s, branch_taken) ==
    IF s.branch_prediction_enabled
    THEN LET counted == [s EXCEPT !.branch_stats.total_branches = @ + 1]
             r == predictBranch(counted, s.pc)
             scored == IF r.ret = branch_taken
                       THEN [r.sim EXCEPT !.branch_stats.correct_predictions = @ + 1]
                       ELSE [r.sim EXCEPT !.branch_stats.incorrect_predictions = @ + 1]
         IN  updateBranchPredictor(scored, s.pc, branch_taken)
    ELSE s

\* MIPSSimulator::isValidAddress: address < memory.size() - 3
isValidAddress(address) == address >= 0 /\ address < SIM_MEMORY_SIZE - 3

\* MIPSSimulator::signExtend16
signExtend16(value) ==
    IF value >= 32768 THEN Or32(value, Mk32(65535, 0)) ELSE value

\* MIPSSimulator::decodeInstruction
decodeInstruction(instruction) ==
    LET opcode == UHi(instruction) \div 1024
    IN  [raw |-> instruction,
         opcode |-> opcode,
         rs |-> (UHi(instruction) \div 32) % 32,
         rt |-> UHi(instruction) % 32,
         rd |-> Lo(instruction) \div 2048,
         shamt |-> (Lo(instruction) \div 64) % 32,
         funct |-> Lo(instruction) % 64,
         immediate |-> Lo(instruction),
         jump_addr |-> (UHi(instruction) % 1024) * 65536 + Lo(instruction),
         type |-> IF opcode = 0 THEN "R"
                  ELSE IF opcode = 2 \/ opcode = 3 THEN "J" ELSE "I"]

\* MIPSSimulator::executeInstruction (it returns true on every path)
executeInstruction(s, instr) ==
    LET R == s.registers
        imm_extended == signExtend16(instr.immediate)
        addr == Add32(R[instr.rs], imm_extended)
        alu(op) == ALU_execute(R[instr.rs], R[instr.rt], op).value
        s1 == IF instr.type = "R" THEN
                  CASE instr.funct = FUNCT_ADD -> [s EXCEPT !.registers[instr.rd] = alu("ADD")]
                    [] instr.funct = FUNCT_SUB -> [s EXCEPT !.registers[instr.rd] = alu("SUB")]
                    [] instr.funct = FUNCT_AND -> [s EXCEPT !.registers[instr.rd] = alu("AND")]
                    [] instr.funct = FUNCT_OR -> [s EXCEPT !.registers[instr.rd] = alu("OR")]
                    [] instr.funct = FUNCT_SLT -> [s EXCEPT !.registers[instr.rd] = alu("SLT")]
                    [] OTHER -> s
              ELSE IF instr.type = "I" THEN
                  CASE instr.opcode = OPCODE_ADDI -> [s EXCEPT !.registers[instr.rt] = addr]
                    [] instr.opcode = OPCODE_LW ->
                         IF isValidAddress(addr)
                         THEN [s EXCEPT !.registers[instr.rt] = readWord(s.memory, addr)]
                         ELSE s
                    [] instr.opcode = OPCODE_SW ->
                         IF isValidAddress(addr)
                         THEN [s EXCEPT !.memory = writeWord(@, addr, R[instr.rt])]
                         ELSE s
                    [] instr.opcode = OPCODE_BEQ -> scoreBranch(s, R[instr.rs] = R[instr.rt])
                    [] instr.opcode = OPCODE_BNE -> scoreBranch(s, R[instr.rs] # R[instr.rt])
                    [] OTHER -> s
              ELSE
                  IF instr.opcode = OPCODE_JAL
                  THEN [s EXCEPT !.registers[31] = Add32(s.pc, 8)]
                  ELSE s
        next_pc ==
            IF instr.type = "R" THEN
                IF instr.funct = FUNCT_JR THEN R[instr.rs] ELSE Add32(s.pc, 4)
            ELSE IF instr.type = "I" THEN
                IF \/ instr.opcode = OPCODE_BEQ /\ R[instr.rs] = R[instr.rt]
                   \/ instr.opcode = OPCODE_BNE /\ R[instr.rs] # R[instr.rt]
                THEN Add32(Add32(s.pc, 4), Shl2(imm_extended))
                ELSE Add32(s.pc, 4)
            ELSE
                IF instr.opcode = OPCODE_J \/ instr.opcode = OPCODE_JAL
                THEN jumpAddress(s.pc, instr.jump_addr)
                ELSE Add32(s.pc, 4)
    IN  [s1 EXCEPT !.pc = next_pc]

\* MIPSSimulator::detectHazards
detectHazards(s) ==
    IF ~s.pipeline_stages[1].valid \/ ~s.pipeline_stages[2].valid THEN FALSE
    ELSE
        LET id_instr == decodeInstruction(s.pipeline_stages[1].instruction)
            ex_instr == decodeInstruction(s.pipeline_stages[2].instruction)
            dest_reg == IF ex_instr.type = "R" THEN ex_instr.rd ELSE ex_instr.rt
        IN  /\ ex_instr.type = "R" \/ (ex_instr.type = "I" /\ ex_instr.opcode = OPCODE_LW)
            /\ dest_reg # 0
            /\ (dest_reg = id_instr.rs \/ dest_reg = id_instr.rt)

\* MIPSSimulator::handleHazards
handleHazards(s) ==
    [s EXCEPT !.pipeline_stages =
        [i \in 0..4 |-> IF i >= 1 THEN [@[i] EXCEPT !.stall = TRUE] ELSE @[i]]]

\* MIPSSimulator::advancePipeline
advancePipeline(s) ==
    IF detectHazards(s) THEN handleHazards(s)
    ELSE
        LET shifted == [i \in 0..4 |-> IF i >= 1 THEN s.pipeline_stages[i - 1]
                                       ELSE s.pipeline_stages[0]]
        IN  IF ~s.halted /\ isValidAddress(s.pc)
            THEN [s EXCEPT !.pipeline_stages =
                               [shifted EXCEPT ![0].instruction = readWord(s.memory, s.pc),
                                               ![0].pc = s.pc,
                                               ![0].valid = TRUE],
                           !.pc = Add32(s.pc, 4)]
            ELSE [s EXCEPT !.pipeline_stages = [shifted EXCEPT ![0].valid = FALSE]]

\* a variant of zeroRegister that leaves register 0 as the instruction set it
zeroRegister_skipped(registers) == registers

\* registers[0] = 0 at the end of MIPSSimulator::step
zeroRegister(registers) == [registers EXCEPT ![0] = 0]

\* a variant of returnsEarly for a step that does not test halted
returnsEarly_never(s) == FALSE

\* if (halted) return false, the first statement of MIPSSimulator::step
returnsEarly(s) == s.halted

\* MIPSSimulator::step: the object after the call and the value returned
Sim_step(s) ==
    IF returnsEarly(s) THEN [sim |-> s, ret |-> FALSE]
    ELSE IF s.pipeline_enabled THEN
        LET s1 == advancePipeline(s)
            s2 == [s1 EXCEPT !.registers = zeroRegister(@)]
        IN  [sim |-> s2, ret |-> ~s2.halted]
    ELSE IF ~isValidAddress(s.pc) THEN
        [sim |-> [s EXCEPT !.halted = TRUE], ret |-> FALSE]
    ELSE
        LET s1 == executeInstruction(s, decodeInstruction(readWord(s.memory, s.pc)))
            s2 == [s1 EXCEPT !.registers = zeroRegister(@)]
        IN  [sim |-> s2, ret |-> ~s2.halted]

\* MIPSSimulator::reset
Sim_reset(s) ==
    [s EXCEPT !.registers = [r \in 0..31 |-> 0], !.pc = 0, !.halted = FALSE,
              !.pipeline_stages = IF s.pipeline_enabled THEN initializePipeline ELSE @,
              !.branch_stats = NewSimBranchStats]

\* the loop of MIPSSimulator::loadProgramFromString over the parsed lines
RECURSIVE Sim_storeWords(_, _, _, _)
Sim_storeWords(memory, words, k, address) ==
    IF k > Len(words) THEN memory
    ELSE IF wordInRange(address, SIM_MEMORY_SIZE)
    THEN Sim_storeWords(writeWord(memory, address, words[k]), words, k + 1,
                        Add32(address, 4))
    ELSE Sim_storeWords(memory, words, k + 1, address)

\* MIPSSimulator::loadProgramFromString, given the words its lines parse to
loadProgramFromString(s, words) ==
    Sim_reset([s EXCEPT !.memory = Sim_storeWords(@, words, 1, 0)])

\* MIPSSimulator::setRegister
Sim_setRegister(s, reg, value) ==
    IF reg >= 1 /\ reg < 32 THEN [s EXCEPT !.registers[reg] = value] ELSE s

\* MIPSSimulator::setPC
Sim_setPC(s, new_pc) == [s EXCEPT !.pc = new_pc]

\* MIPSSimulator::enablePipeline
Sim_enablePipeline(s, enable) ==
    [s EXCEPT !.pipeline_enabled = enable,
              !.pipeline_stages = IF enable THEN initializePipeline ELSE @]

\* one pass of the loop of MIPSSimulator::run: the object after it and
\* whether the loop goes round again
runIteration(s) ==
    IF s.halted THEN [sim |-> s, again |-> FALSE]
    ELSE LET r == Sim_step(s)
         IN  [sim |-> r.sim, again |-> r.ret /\ ~r.sim.step_mode]

---------------------------------------------------------------------------
(* The program text MIPSSimulator loads: a sequence of lines, a line being *)
(* the sequence of its characters                                          *)

HexDigits == <<"0", "1", "2", "3", "4", "5", "6", "7",
               "8", "9", "a", "b", "c", "d", "e", "f">>

isHexDigit(c) == \E i \in 1..16 : HexDigits[i] = c

hexValue(c) == (CHOOSE i \in 1..16 : HexDigits[i] = c) - 1

\* the digits std::stoul consumes from position k on and their value; it
\* stops at the first character that is no digit of the base
RECURSIVE stoulDigits(_, _, _)
stoulDigits(line, k, acc) ==
    IF k > Len(line) \/ ~isHexDigit(line[k]) THEN [consumed |-> k - 1, value |-> acc]
    ELSE stoulDigits(line, k + 1, acc * 16 + hexValue(line[k]))

\* std::stoul(line, nullptr, 16) on a line without blanks, sign or prefix
\* and with fewer than eight digits: it throws std::invalid_argument when no
\* digit could be converted, and ignores whatever follows the digits
stoul(line) ==
    LET r == stoulDigits(line, 1, 0)
    IN  [thrown |-> r.consumed = 0, value |-> r.value]

\* one pass of the while loop of MIPSSimulator::loadProgramFromString and
\* loadProgram: st holds the object, the local address, and whether
\* std::stoul has thrown, which ends the loop
loadLine(st, line) ==
    IF st.thrown THEN st
    ELSE IF line = << >> \/ line[1] = "#" THEN st
    ELSE LET instruction == stoul(line)
         IN  IF instruction.thrown THEN [st EXCEPT !.thrown = TRUE]
             ELSE IF wordInRange(st.address, SIM_MEMORY_SIZE)
             THEN [st EXCEPT !.sim.memory = writeWord(@, st.address, instruction.value),
                             !.address = Add32(@, 4)]
             ELSE st

\* the passes for the lines first..last, in order
RECURSIVE loadLines(_, _, _, _)
loadLines(st, program, first, last) ==
    IF first > last THEN st
    ELSE IF first = last THEN loadLine(st, program[first])
    ELSE LET mid == (first + last) \div 2
             half == loadLines(st, program, first, mid)
         IN  IF half.thrown THEN half ELSE loadLines(half, program, mid + 1, last)

\* the loop over the whole text and the statements after it: the object,
\* the value returned, and whether std::stoul threw
loadText(s, program) ==
    LET st == loadLines([sim |-> s, address |-> 0, thrown |-> FALSE],
                        program, 1, Len(program))
    IN  IF st.thrown THEN [sim |-> st.sim, ret |-> FALSE, thrown |-> TRUE]
        ELSE [sim |-> Sim_reset(st.sim), ret |-> TRUE, thrown |-> FALSE]

\* MIPSSimulator::loadProgramFromString on the text itself: the exception
\* is caught and false returned
loadProgramFromString_text(s, program) ==
    LET r == loadText(s, program)
    IN  [sim |-> r.sim, ret |-> r.ret, thrown |-> FALSE]

\* a file that cannot be opened, and a file that holds the lines of program
NoFile == [opens |-> FALSE, lines |-> << >>]
FileOf(program) == [opens |-> TRUE, lines |-> program]

\* MIPSSimulator::loadProgram(filename): nothing catches the exception of
\* std::stoul, neither here nor in main() nor in CLIInterface::loadProgram
Sim_loadProgram(s, file) ==
    IF ~file.opens THEN [sim |-> s, ret |-> FALSE, thrown |-> FALSE]
    ELSE loadText(s, file.lines)

---------------------------------------------------------------------------
(* Memory accessors beyond the word accessors above.  The word accessors   *)
(* of MIPS and Pipeline test address + 3 < memory.size() with the sum      *)
(* taken in uint32_t: for the addresses 0xFFFFFFFD..0xFFFFFFFF the sum     *)
(* wraps, the test passes and memory[address] indexes the vector far past  *)
(* its end, which is undefined behaviour.  MIPS_getMemoryWord and          *)
(* MIPS_setMemoryWord give the defined cases; the actions of MemSpec add   *)
(* the outcomes of the undefined ones.                                     *)

\* address < memory.size()
inVector(address, size) == address >= 0 /\ address < size

\* the word accessors index the vector out of its bounds
indexesOutOfBounds(address, size) ==
    wordInRange(address, size) /\ ~inVector(address, size)

\* what a read outside the vector may find in a byte
GarbageBytes == {0, 255}

\* the word an out-of-bounds read assembles when the process survives it:
\* the bytes whose index address + i, taken in uint32_t, is inside the
\* vector come from memory, the others are whatever lies outside
wildReadWord(mem, address, size, garbage) ==
    LET byte(i) == LET a == Add32(address, i)
                   IN  IF inVector(a, size) THEN memoryAt(mem, a) ELSE garbage
    IN  FromBytes(byte(0), byte(1), byte(2), byte(3))

\* the vector after an out-of-bounds write the process survives: the bytes
\* whose index is inside the vector are stored
wildWriteWord(mem, address, size, value) ==
    LET put(m, i, b) == LET a == Add32(address, i)
                        IN  IF inVector(a, size) THEN memoryPut(m, a, b) ELSE m
    IN  put(put(put(put(mem, 0, Byte0(value)), 1, Byte1(value)),
                2, Byte2(value)), 3, Byte3(value))

\* MIPS::getMemoryByte
MIPS_getMemoryByte(m, address) ==
    IF inVector(address, MIPS_MEMORY_SIZE) THEN memoryAt(m.memory, address) ELSE 0

\* MIPS::setMemoryByte
MIPS_setMemoryByte(m, address, value) ==
    IF inVector(address, MIPS_MEMORY_SIZE)
    THEN [m EXCEPT !.memory = memoryPut(@, address, value)]
    ELSE m

\* MIPSSimulator::getMemory
Sim_getMemory(s, address) ==
    IF isValidAddress(address) THEN readWord(s.memory, address) ELSE 0

\* MIPSSimulator::setMemory
Sim_setMemory(s, address, value) ==
    IF isValidAddress(address) THEN [s EXCEPT !.memory = writeWord(@, address, value)]
    ELSE s

---------------------------------------------------------------------------
(* Branch predictors.  The repository holds three:                         *)
(*   - the class family of BranchPredictor.hpp (StaticPredictor,           *)
(*     BTFNPredictor, BimodalPredictor, GsharePredictor,                   *)
(*     LocalHistoryPredictor, TournamentPredictor), built by               *)
(*     BranchPredictorFactory::create;                                     *)
(*   - the map-based class BranchPredictor of branch_predictor.hpp;        *)
(*   - the branch_history_table of MIPSSimulator (see executeInstruction). *)
(* A std::vector table of 2^bits equal entries is held sparsely, as a      *)
(* function from the indices whose entry differs from the fill value.      *)

RECURSIVE Pow2(_)
\* 1 << n
Pow2(n) == IF n = 0 THEN 1 ELSE 2 * Pow2(n - 1)

RECURSIVE Xor16(_, _, _)
\* x ^ y on n bits
Xor16(x, y, n) ==
    IF n = 0 THEN 0
    ELSE ((x + y) % 2) + 2 * Xor16(x \div 2, y \div 2, n - 1)

\* pc >> 2 of a uint32_t
Shr2(pc) == IF pc >= 0 THEN pc \div 4 ELSE (pc \div 4) + 1073741824

Min(a, b) == IF a < b THEN a ELSE b

EmptyTable == [i \in {} |-> 0]

tableAt(table, index, fill) == IF index \in DOMAIN table THEN table[index] ELSE fill

tablePut(table, index, value, fill) ==
    IF value = fill THEN [i \in DOMAIN table \ {index} |-> table[i]]
    ELSE [i \in DOMAIN table \cup {index} |-> IF i = index THEN value ELSE table[i]]

\* BranchStats::BranchStats.  accuracy, a double, is held as the fraction
\* <<numerator, denominator>> the code divides.
NewBranchStats ==
    [totalBranches |-> 0, correctPredictions |-> 0, mispredictions |-> 0,
     accuracy |-> <<0, 1>>]

\* stats.totalBranches++; the comparison of the prediction with the outcome;
\* stats.accuracy = correctPredictions / totalBranches
countBranch(stats, predicted, taken) ==
    LET total == stats.totalBranches + 1
        correct == stats.correctPredictions + (IF predicted = taken THEN 1 ELSE 0)
    IN  [totalBranches |-> total,
         correctPredictions |-> correct,
         mispredictions |-> stats.mispredictions + (IF predicted = taken THEN 0 ELSE 1),
         accuracy |-> <<correct, total>>]

\* a variant of saturate that clears the counter on a not-taken outcome
saturate_clear(counter, taken) ==
    IF taken /\ counter < 3 THEN counter + 1
    ELSE IF ~taken THEN 0
    ELSE counter

\* the 2-bit update: table[index]++ below 3 when taken, table[index]-- above
\* 0 when not taken
saturate(counter, taken) ==
    IF taken /\ counter < 3 THEN counter + 1
    ELSE IF ~taken /\ counter > 0 THEN counter - 1
    ELSE counter

\* StaticPredictor
NewStaticPredictor(t, pred) == [type |-> t, stats |-> NewBranchStats, prediction |-> pred]

StaticPredictor_predict(p, pc, targetAddress) == p.prediction

StaticPredictor_update(p, pc, taken, targetAddress) ==
    [p EXCEPT !.stats = countBranch(@, StaticPredictor_predict(p, pc, targetAddress), taken)]

StaticPredictor_reset(p) == [p EXCEPT !.stats = NewBranchStats]

\* BTFNPredictor
NewBTFNPredictor == [type |-> "STATIC_BTFN", stats |-> NewBranchStats]

BTFNPredictor_predict(p, pc, targetAddress) == ULt(targetAddress, pc)

BTFNPredictor_update(p, pc, taken, targetAddress) ==
    [p EXCEPT !.stats = countBranch(@, BTFNPredictor_predict(p, pc, targetAddress), taken)]

BTFNPredictor_reset(p) == [p EXCEPT !.stats = NewBranchStats]

\* BimodalPredictor
NewBimodalPredictor(t, bits) ==
    [type |-> t, stats |-> NewBranchStats, table |-> EmptyTable,
     indexBits |-> bits, tableSize |-> Pow2(bits), twoBit |-> t = "BIMODAL_2BIT"]

BimodalPredictor_fill(p) == IF p.twoBit THEN 1 ELSE 0

BimodalPredictor_getIndex(p, pc) == Shr2(pc) % Pow2(p.indexBits)

BimodalPredictor_predict(p, pc, targetAddress) ==
    LET entry == tableAt(p.table, BimodalPredictor_getIndex(p, pc), BimodalPredictor_fill(p))
    IN  IF p.twoBit THEN entry >= 2 ELSE entry = 1

\* the prediction BimodalPredictor::update scores, taken after the table
\* entry has been rewritten instead of before
BimodalPredictor_scored_late(p, pc, taken, targetAddress) ==
    IF p.twoBit
    THEN saturate(tableAt(p.table, BimodalPredictor_getIndex(p, pc), 1), taken) >= 2
    ELSE taken

\* the prediction BimodalPredictor::update scores
BimodalPredictor_scored(p, pc, taken, targetAddress) ==
    BimodalPredictor_predict(p, pc, targetAddress)

BimodalPredictor_update(p, pc, taken, targetAddress) ==
    LET index == BimodalPredictor_getIndex(p, pc)
        fill == BimodalPredictor_fill(p)
        entry == tableAt(p.table, index, fill)
    IN  [p EXCEPT
            !.stats = countBranch(@, BimodalPredictor_scored(p, pc, taken, targetAddress), taken),
            !.table = tablePut(@, index,
                               IF p.twoBit THEN saturate(entry, taken)
                               ELSE IF taken THEN 1 ELSE 0,
                               fill)]

BimodalPredictor_reset(p) == [p EXCEPT !.stats = NewBranchStats, !.table = EmptyTable]

\* GsharePredictor
NewGsharePredictor(histBits, idxBits) ==
    [type |-> "GSHARE", stats |-> NewBranchStats, table |-> EmptyTable,
     globalHistory |-> 0, historyBits |-> histBits, indexBits |-> idxBits,
     tableSize |-> Pow2(idxBits)]

\* a variant of GsharePredictor::getIndex that masks the history to its own
\* width and not to the narrower of the two widths
GsharePredictor_getIndex_fullHistory(p, pc) ==
    LET pcBits == Shr2(pc) % Pow2(p.indexBits)
        historyMask == Pow2(p.historyBits)
    IN  Xor16(pcBits, p.globalHistory % historyMask, 32)

GsharePredictor_getIndex(p, pc) ==
    LET pcBits == Shr2(pc) % Pow2(p.indexBits)
        historyMask == Pow2(Min(p.historyBits, p.indexBits))
    IN  Xor16(pcBits, p.globalHistory % historyMask, 32)

GsharePredictor_predict(p, pc, targetAddress) ==
    tableAt(p.table, GsharePredictor_getIndex(p, pc), 1) >= 2

\* a variant of GsharePredictor::update that shifts the history before it
\* selects the counter
GsharePredictor_update_shiftFirst(p, pc, taken, targetAddress) ==
    LET shifted == [p EXCEPT !.globalHistory =
                        (2 * @ + (IF taken THEN 1 ELSE 0)) % Pow2(p.historyBits)]
        index == GsharePredictor_getIndex(shifted, pc)
    IN  [shifted EXCEPT
            !.stats = countBranch(@, GsharePredictor_predict(p, pc, targetAddress), taken),
            !.table = tablePut(@, index, saturate(tableAt(p.table, index, 1), taken), 1)]

GsharePredictor_update(p, pc, taken, targetAddress) ==
    LET index == GsharePredictor_getIndex(p, pc)
    IN  [p EXCEPT
            !.stats = countBranch(@, GsharePredictor_predict(p, pc, targetAddress), taken),
            !.table = tablePut(@, index, saturate(tableAt(p.table, index, 1), taken), 1),
            !.globalHistory = (2 * @ + (IF taken THEN 1 ELSE 0)) % Pow2(p.historyBits)]

GsharePredictor_reset(p) ==
    [p EXCEPT !.stats = NewBranchStats, !.globalHistory = 0, !.table = EmptyTable]

\* LocalHistoryPredictor
NewLocalHistoryPredictor(localBits, patternBits) ==
    [type |-> "LOCAL_HISTORY", stats |-> NewBranchStats,
     localHistoryTable |-> EmptyTable, patternHistoryTable |-> EmptyTable,
     localHistoryBits |-> localBits, patternHistoryBits |-> patternBits,
     localTableSize |-> Pow2(localBits), patternTableSize |-> Pow2(patternBits)]

LocalHistoryPredictor_getLocalIndex(p, pc) == Shr2(pc) % Pow2(p.localHistoryBits)

LocalHistoryPredictor_getPatternIndex(p, localHistory) ==
    localHistory % Pow2(p.patternHistoryBits)

LocalHistoryPredictor_predict(p, pc, targetAddress) ==
    LET localIndex == LocalHistoryPredictor_getLocalIndex(p, pc)
        localHistory == tableAt(p.localHistoryTable, localIndex, 0)
        patternIndex == LocalHistoryPredictor_getPatternIndex(p, localHistory)
    IN  tableAt(p.patternHistoryTable, patternIndex, 1) >= 2

LocalHistoryPredictor_update(p, pc, taken, targetAddress) ==
    LET localIndex == LocalHistoryPredictor_getLocalIndex(p, pc)
        localHistory == tableAt(p.localHistoryTable, localIndex, 0)
        patternIndex == LocalHistoryPredictor_getPatternIndex(p, localHistory)
    IN  [p EXCEPT
            !.stats = countBranch(@, LocalHistoryPredictor_predict(p, pc, targetAddress), taken),
            !.patternHistoryTable =
                tablePut(@, patternIndex,
                         saturate(tableAt(p.patternHistoryTable, patternIndex, 1), taken), 1),
            !.localHistoryTable =
                tablePut(@, localIndex,
                         (2 * localHistory + (IF taken THEN 1 ELSE 0))
                             % Pow2(p.patternHistoryBits), 0)]

LocalHistoryPredictor_reset(p) ==
    [p EXCEPT !.stats = NewBranchStats, !.localHistoryTable = EmptyTable,
              !.patternHistoryTable = EmptyTable]

\* TournamentPredictor
NewTournamentPredictor(choiceBits) ==
    [type |-> "TOURNAMENT", stats |-> NewBranchStats,
     globalPredictor |-> NewGsharePredictor(12, 12),
     localPredictor |-> NewLocalHistoryPredictor(10, 10),
     choiceTable |-> EmptyTable, choiceTableSize |-> Pow2(choiceBits)]

\* (pc >> 2) & (choiceTableSize - 1), choiceTableSize being a power of two
TournamentPredictor_getChoiceIndex(p, pc) == Shr2(pc) % p.choiceTableSize

TournamentPredictor_predict(p, pc, targetAddress) ==
    IF tableAt(p.choiceTable, TournamentPredictor_getChoiceIndex(p, pc), 1) >= 2
    THEN GsharePredictor_predict(p.globalPredictor, pc, targetAddress)
    ELSE LocalHistoryPredictor_predict(p.localPredictor, pc, targetAddress)

\* chosenPrediction of TournamentPredictor::update
chosenPrediction(p, pc, targetAddress) == TournamentPredictor_predict(p, pc, targetAddress)

\* a variant of TournamentPredictor::update that moves the chooser towards
\* the gshare member whenever that member was right
TournamentPredictor_update_eager(p, pc, taken, targetAddress) ==
    LET choiceIndex == TournamentPredictor_getChoiceIndex(p, pc)
        globalPrediction == GsharePredictor_predict(p.globalPredictor, pc, targetAddress)
        localPrediction == LocalHistoryPredictor_predict(p.localPredictor, pc, targetAddress)
        choice == tableAt(p.choiceTable, choiceIndex, 1)
    IN  [p EXCEPT
            !.stats = countBranch(@, chosenPrediction(p, pc, targetAddress), taken),
            !.choiceTable =
                tablePut(@, choiceIndex,
                         IF globalPrediction = taken
                         THEN (IF choice < 3 THEN choice + 1 ELSE choice)
                         ELSE IF localPrediction = taken /\ globalPrediction # taken
                         THEN (IF choice > 0 THEN choice - 1 ELSE choice)
                         ELSE choice,
                         1),
            !.globalPredictor = GsharePredictor_update(@, pc, taken, targetAddress),
            !.localPredictor = LocalHistoryPredictor_update(@, pc, taken, targetAddress)]

TournamentPredictor_update(p, pc, taken, targetAddress) ==
    LET choiceIndex == TournamentPredictor_getChoiceIndex(p, pc)
        globalPrediction == GsharePredictor_predict(p.globalPredictor, pc, targetAddress)
        localPrediction == LocalHistoryPredictor_predict(p.localPredictor, pc, targetAddress)
        choice == tableAt(p.choiceTable, choiceIndex, 1)
    IN  [p EXCEPT
            !.stats = countBranch(@, chosenPrediction(p, pc, targetAddress), taken),
            !.choiceTable =
                tablePut(@, choiceIndex,
                         IF globalPrediction = taken /\ localPrediction # taken
                         THEN (IF choice < 3 THEN choice + 1 ELSE choice)
                         ELSE IF localPrediction = taken /\ globalPrediction # taken
                         THEN (IF choice > 0 THEN choice - 1 ELSE choice)
                         ELSE choice,
                         1),
            !.globalPredictor = GsharePredictor_update(@, pc, taken, targetAddress),
            !.localPredictor = LocalHistoryPredictor_update(@, pc, taken, targetAddress)]

TournamentPredictor_reset(p) ==
    [p EXCEPT !.stats = NewBranchStats,
              !.globalPredictor = GsharePredictor_reset(@),
              !.localPredictor = LocalHistoryPredictor_reset(@),
              !.choiceTable = EmptyTable]

\* BranchPredictorFactory::create
BranchPredictorFactory_create(type, param1, param2) ==
    CASE type = "STATIC_NOT_TAKEN" -> NewStaticPredictor(type, FALSE)
      [] type = "STATIC_TAKEN" -> NewStaticPredictor(type, TRUE)
      [] type = "STATIC_BTFN" -> NewBTFNPredictor
      [] type \in {"BIMODAL_1BIT", "BIMODAL_2BIT"} -> NewBimodalPredictor(type, param1)
      [] type = "GSHARE" -> NewGsharePredictor(param1, param2)
      [] type = "LOCAL_HISTORY" -> NewLocalHistoryPredictor(param1, param2)
      [] type = "TOURNAMENT" -> NewTournamentPredictor(param1)
      [] OTHER -> NewStaticPredictor("STATIC_NOT_TAKEN", FALSE)

\* the map-based class BranchPredictor (branch_predictor.hpp): the 2-bit
\* states
STRONGLY_NOT_TAKEN == 0
WEAKLY_NOT_TAKEN == 1
WEAKLY_TAKEN == 2
STRONGLY_TAKEN == 3

\* BranchPredictor::reset.  branch_history_table, a std::map, is the
\* function from the keys it holds; accuracy is held as the fraction the
\* code divides (times 100).
BranchPredictor_reset(p) ==
    [p EXCEPT !.branch_history_table = EmptyTable,
              !.stats = [total_predictions |-> 0, correct_predictions |-> 0,
                         incorrect_predictions |-> 0, accuracy |-> <<0, 1>>]]

\* BranchPredictor::BranchPredictor(type)
NewBranchPredictor(type) ==
    BranchPredictor_reset([type |-> "BranchPredictor", predictor_type |-> type,
                           branch_history_table |-> EmptyTable,
                           stats |-> [total_predictions |-> 0]])

\* BranchPredictor::predict: the object after the call and the value returned
BranchPredictor_predict(p, pc) ==
    LET counted == [p EXCEPT !.stats.total_predictions = @ + 1]
        present == pc \in DOMAIN p.branch_history_table
        initial == IF p.predictor_type = "DYNAMIC_1BIT" THEN 0 ELSE WEAKLY_NOT_TAKEN
        table == IF present THEN p.branch_history_table
                 ELSE [k \in DOMAIN p.branch_history_table \cup {pc} |->
                          IF k = pc THEN initial ELSE p.branch_history_table[k]]
    IN  CASE p.predictor_type = "STATIC_NOT_TAKEN" -> [p |-> counted, ret |-> FALSE]
          [] p.predictor_type = "STATIC_TAKEN" -> [p |-> counted, ret |-> TRUE]
          [] p.predictor_type = "DYNAMIC_1BIT" ->
                [p |-> [counted EXCEPT !.branch_history_table = table],
                 ret |-> table[pc] = 1]
          [] p.predictor_type = "DYNAMIC_2BIT" ->
                [p |-> [counted EXCEPT !.branch_history_table = table],
                 ret |-> table[pc] \in {WEAKLY_TAKEN, STRONGLY_TAKEN}]
          [] OTHER -> [p |-> counted, ret |-> FALSE]

\* the 2-bit state machine of BranchPredictor::update for an entry the
\* table holds
nextState2Bit(state, actual_outcome) ==
    IF actual_outcome
    THEN CASE state = STRONGLY_NOT_TAKEN -> WEAKLY_NOT_TAKEN
           [] state = WEAKLY_NOT_TAKEN -> WEAKLY_TAKEN
           [] state = WEAKLY_TAKEN -> STRONGLY_TAKEN
           [] OTHER -> state
    ELSE CASE state = WEAKLY_NOT_TAKEN -> STRONGLY_NOT_TAKEN
           [] state = WEAKLY_TAKEN -> WEAKLY_NOT_TAKEN
           [] state = STRONGLY_TAKEN -> WEAKLY_TAKEN
           [] OTHER -> state

\* BranchPredictor::update
BranchPredictor_update(p, pc, actual_outcome) ==
    LET table == p.branch_history_table
        present == pc \in DOMAIN table
        put(v) == [k \in DOMAIN table \cup {pc} |-> IF k = pc THEN v ELSE table[k]]
        predicted_outcome ==
            CASE p.predictor_type = "STATIC_TAKEN" -> TRUE
              [] p.predictor_type = "DYNAMIC_1BIT" -> present /\ table[pc] = 1
              [] p.predictor_type = "DYNAMIC_2BIT" ->
                    present /\ table[pc] \in {WEAKLY_TAKEN, STRONGLY_TAKEN}
              [] OTHER -> FALSE
        updated ==
            CASE p.predictor_type = "DYNAMIC_1BIT" ->
                    put(IF actual_outcome THEN 1 ELSE 0)
              [] p.predictor_type = "DYNAMIC_2BIT" ->
                    IF present THEN put(nextState2Bit(table[pc], actual_outcome))
                    ELSE put(IF actual_outcome THEN WEAKLY_TAKEN ELSE WEAKLY_NOT_TAKEN)
              [] OTHER -> table
        correct == p.stats.correct_predictions
                   + (IF predicted_outcome = actual_outcome THEN 1 ELSE 0)
        incorrect == p.stats.incorrect_predictions
                     + (IF predicted_outcome = actual_outcome THEN 0 ELSE 1)
    IN  [p EXCEPT
            !.branch_history_table = updated,
            !.stats = [total_predictions |-> p.stats.total_predictions,
                       correct_predictions |-> correct,
                       incorrect_predictions |-> incorrect,
                       accuracy |-> IF p.stats.total_predictions > 0
                                    THEN <<correct * 100, p.stats.total_predictions>>
                                    ELSE p.stats.accuracy]]

\* the virtual calls predict, update and reset, and the calls on the
\* map-based class, which takes no target address.  predict gives the
\* object after the call and the value returned.
Predictor_predict(p, pc, targetAddress) ==
    CASE p.type = "BranchPredictor" -> BranchPredictor_predict(p, pc)
      [] p.type \in {"STATIC_NOT_TAKEN", "STATIC_TAKEN"} ->
            [p |-> p, ret |-> StaticPredictor_predict(p, pc, targetAddress)]
      [] p.type = "STATIC_BTFN" ->
            [p |-> p, ret |-> BTFNPredictor_predict(p, pc, targetAddress)]
      [] p.type \in {"BIMODAL_1BIT", "BIMODAL_2BIT"} ->
            [p |-> p, ret |-> BimodalPredictor_predict(p, pc, targetAddress)]
      [] p.type = "GSHARE" ->
            [p |-> p, ret |-> GsharePredictor_predict(p, pc, targetAddress)]
      [] p.type = "LOCAL_HISTORY" ->
            [p |-> p, ret |-> LocalHistoryPredictor_predict(p, pc, targetAddress)]
      [] p.type = "TOURNAMENT" ->
            [p |-> p, ret |-> TournamentPredictor_predict(p, pc, targetAddress)]

Predictor_update(p, pc, taken, targetAddress) ==
    CASE p.type = "BranchPredictor" -> BranchPredictor_update(p, pc, taken)
      [] p.type \in {"STATIC_NOT_TAKEN", "STATIC_TAKEN"} ->
            StaticPredictor_update(p, pc, taken, targetAddress)
      [] p.type = "STATIC_BTFN" -> BTFNPredictor_update(p, pc, taken, targetAddress)
      [] p.type \in {"BIMODAL_1BIT", "BIMODAL_2BIT"} ->
            BimodalPredictor_update(p, pc, taken, targetAddress)
      [] p.type = "GSHARE" -> GsharePredictor_update(p, pc, taken, targetAddress)
      [] p.type = "LOCAL_HISTORY" ->
            LocalHistoryPredictor_update(p, pc, taken, targetAddress)
      [] p.type = "TOURNAMENT" -> TournamentPredictor_update(p, pc, taken, targetAddress)

Predictor_reset(p) ==
    CASE p.type = "BranchPredictor" -> BranchPredictor_reset(p)
      [] p.type \in {"STATIC_NOT_TAKEN", "STATIC_TAKEN"} -> StaticPredictor_reset(p)
      [] p.type = "STATIC_BTFN" -> BTFNPredictor_reset(p)
      [] p.type \in {"BIMODAL_1BIT", "BIMODAL_2BIT"} -> BimodalPredictor_reset(p)
      [] p.type = "GSHARE" -> GsharePredictor_reset(p)
      [] p.type = "LOCAL_HISTORY" -> LocalHistoryPredictor_reset(p)
      [] p.type = "TOURNAMENT" -> TournamentPredictor_reset(p)

\* the three counters of either statistics struct
Predictor_stats(p) ==
    IF p.type = "BranchPredictor"
    THEN [total |-> p.stats.total_predictions, correct |-> p.stats.correct_predictions,
          mispredicted |-> p.stats.incorrect_predictions]
    ELSE [total |-> p.stats.totalBranches, correct |-> p.stats.correctPredictions,
          mispredicted |-> p.stats.mispredictions]

\* no predictor object (the cores of this repository drive none)
NoPredictor == [type |-> "none"]

---------------------------------------------------------------------------
(* The assembler (Instruction.cpp): InstructionDecoder::assembleInstruction *)
(* on a line that is a mnemonic followed by operands.  The operand parsers  *)
(* are called with uninitialised locals.  parseRTypeOperands is an empty    *)
(* function, so add and sub encode whatever the locals rd, rs, rt held;     *)
(* the other four parsers have no definition in the repository and are     *)
(* taken to deliver the operands written on the line.                       *)

\* std::transform(..., ::tolower) on the mnemonics a line may start with
tolower(mnemonic) ==
    CASE mnemonic = "ADD" -> "add"
      [] mnemonic = "SUB" -> "sub"
      [] mnemonic = "AND" -> "and"
      [] mnemonic = "OR" -> "or"
      [] mnemonic = "NOR" -> "nor"
      [] mnemonic = "XOR" -> "xor"
      [] mnemonic = "SLT" -> "slt"
      [] mnemonic = "SLTU" -> "sltu"
      [] mnemonic = "SLL" -> "sll"
      [] mnemonic = "SRL" -> "srl"
      [] mnemonic = "SRA" -> "sra"
      [] mnemonic = "JR" -> "jr"
      [] mnemonic = "JALR" -> "jalr"
      [] mnemonic = "ADDI" -> "addi"
      [] mnemonic = "ADDIU" -> "addiu"
      [] mnemonic = "ANDI" -> "andi"
      [] mnemonic = "ORI" -> "ori"
      [] mnemonic = "XORI" -> "xori"
      [] mnemonic = "SLTI" -> "slti"
      [] mnemonic = "SLTIU" -> "sltiu"
      [] mnemonic = "LUI" -> "lui"
      [] mnemonic = "LW" -> "lw"
      [] mnemonic = "LH" -> "lh"
      [] mnemonic = "LB" -> "lb"
      [] mnemonic = "LBU" -> "lbu"
      [] mnemonic = "LHU" -> "lhu"
      [] mnemonic = "SW" -> "sw"
      [] mnemonic = "SH" -> "sh"
      [] mnemonic = "SB" -> "sb"
      [] mnemonic = "BEQ" -> "beq"
      [] mnemonic = "BNE" -> "bne"
      [] mnemonic = "BLEZ" -> "blez"
      [] mnemonic = "BGTZ" -> "bgtz"
      [] mnemonic = "BLTZ" -> "bltz"
      [] mnemonic = "BGEZ" -> "bgez"
      [] mnemonic = "J" -> "j"
      [] mnemonic = "JAL" -> "jal"
      [] mnemonic = "NOP" -> "nop"

\* x << n as a word, for x below 256
shiftLeft(x, n) ==
    IF n >= 16 THEN Mk32(x * Pow2(n - 16), 0) ELSE x * Pow2(n)

\* the operands the four undefined parsers deliver
parseITypeOperands(operands) ==
    [rt |-> operands.rt, rs |-> operands.rs, imm |-> operands.immediate]
parseLoadStoreOperands(operands) ==
    [rt |-> operands.rt, offset |-> operands.immediate, rs |-> operands.rs]
parseBranchOperands(operands) ==
    [rs |-> operands.rs, rt |-> operands.rt, offset |-> operands.immediate]
parseJumpOperands(operands) == [target |-> operands.jumpTarget]

\* InstructionDecoder::assembleInstruction; locals holds the indeterminate
\* values of rd, rs and rt that parseRTypeOperands leaves untouched.  The
\* immediates are masked to 16 bits, the target to 26.
assembleInstruction(mnemonic, operands, locals) ==
    LET opcode == tolower(mnemonic)
        rtype(funct) ==
            Or32(Or32(shiftLeft(locals.rs, 21), shiftLeft(locals.rt, 16)),
                 Or32(shiftLeft(locals.rd, 11), funct))
        itype(op, rs, rt, imm) ==
            Or32(Or32(shiftLeft(op, 26), shiftLeft(rs, 21)),
                 Or32(shiftLeft(rt, 16), imm % 65536))
    IN  CASE opcode = "add" -> rtype(32)
          [] opcode = "sub" -> rtype(34)
          [] opcode = "addi" ->
                LET o == parseITypeOperands(operands) IN itype(8, o.rs, o.rt, o.imm)
          [] opcode = "lw" ->
                LET o == parseLoadStoreOperands(operands) IN itype(35, o.rs, o.rt, o.offset)
          [] opcode = "sw" ->
                LET o == parseLoadStoreOperands(operands) IN itype(43, o.rs, o.rt, o.offset)
          [] opcode = "beq" ->
                LET o == parseBranchOperands(operands) IN itype(4, o.rs, o.rt, o.offset)
          [] opcode = "j" ->
                LET o == parseJumpOperands(operands)
                IN  Or32(shiftLeft(2, 26),
                         Mk32((o.target \div 65536) % 1024, o.target % 65536))
          [] OTHER -> 0

---------------------------------------------------------------------------
(* The machine words the drivers use *)

W_NOP == EncR(0, 0, 0, 0, 0)          \* nop (assembled as 0)
W_ADDI == EncI(8, 0, 1, 5)            \* addi $1, $0, 5
W_ADD == EncR(1, 1, 2, 0, 32)         \* add  $2, $1, $1
W_LW == EncI(35, 0, 1, 0)             \* lw   $1, 0($0)
W_SW == EncI(43, 0, 1, 4)             \* sw   $1, 4($0)
W_BEQ == EncI(4, 0, 0, 0)             \* beq  $0, $0, 0
W_J == EncJ(2, 0)                     \* j    0x0
W_J4 == EncJ(2, 1)                    \* j    0x4
W_JOUT == EncJ(2, 16384)              \* j    0x10000, the end of memory
W_ORI == EncI(13, 0, 3, 32768)        \* ori  $3, $0, 0x8000
W_ADDI0 == EncI(8, 0, 0, 5)           \* addi $0, $0, 5
W_BNE == EncI(5, 1, 0, 65535)         \* bne  $1, $0, -1 (to itself)
W_BEQ1 == EncI(4, 1, 0, 1)            \* beq  $1, $0, +1

\* what the last tick did, before any tick
NoTick == [stalled |-> FALSE, exRan |-> FALSE, op1 |-> 0, op2 |-> 0, taken |-> FALSE]

TickRecord(stalled, ex) ==
    [stalled |-> stalled, exRan |-> ex.exRan, op1 |-> ex.op1, op2 |-> ex.op2,
     taken |-> ex.taken]

Called(obj, op, ret) == [obj |-> obj, op |-> op, ret |-> ret, running |-> FALSE]

---------------------------------------------------------------------------
(* PipeSpec: a driver that owns a Pipeline and hands Pipeline::tick one     *)
(* instruction after another, with the register and memory vectors of a    *)
(* freshly constructed MIPS object                                         *)

MaxTicks == 5

PipeWords == {W_NOP, W_ADDI, W_ADD, W_LW, W_SW, W_BEQ, W_BEQ1, W_BNE, W_J, W_ORI}

PipeInit ==
    /\ mips = NewMIPS
    /\ pipeline = NewPipeline
    /\ lastTick = NoTick
    /\ fed = << >>
    /\ predictor = NoPredictor
    /\ sim = NewSim
    /\ call = Called("Pipeline", "Pipeline", TRUE)

Pipeline_tick ==
    /\ Len(fed) < MaxTicks
    /\ \E w \in PipeWords :
        LET instr == decode(w)
            t == tick(pipeline, mips.registers, mips.memory, instr,
                      Add32(TEXT_BASE, 4 * Len(fed)))
        IN  /\ pipeline' = t.p
            /\ mips' = [mips EXCEPT !.registers = t.registers, !.memory = t.memory]
            /\ lastTick' = TickRecord(t.stalled, t.ex)
            /\ fed' = Append(fed, instr)
    /\ call' = Called("Pipeline", "tick", TRUE)
    /\ UNCHANGED <<sim, predictor>>

PipeNext == Pipeline_tick

PipeSpec == PipeInit /\ [][PipeNext]_vars

---------------------------------------------------------------------------
(* Spec: a driver that owns one core, a MIPS object or a MIPSSimulator     *)
(* object, and calls its public member functions in any order              *)

MaxCycles == 2
MaxPC == 12
MaxBranches == 3

MipsPrograms == {<<W_NOP>>, <<W_ADDI, W_ADD>>}
MipsWords == {W_ADDI0}
SimPrograms == {<<W_LW, W_ADD>>, <<W_ADDI0, W_JOUT>>}
Registers == {0, 1}
Values == {7}

Init ==
    /\ mips = NewMIPS
    /\ pipeline = NewPipeline
    /\ lastTick = NoTick
    /\ fed = << >>
    /\ predictor = NoPredictor
    /\ sim = NewSim
    /\ \E obj \in {"MIPS", "MIPSSimulator"} : call = Called(obj, obj, TRUE)

MIPS_LoadProgram ==
    /\ call.obj = "MIPS"
    /\ \E words \in MipsPrograms : mips' = loadProgram(mips, words)
    /\ call' = Called("MIPS", "loadProgram", TRUE)
    /\ UNCHANGED <<pipeline, lastTick, fed, sim, predictor>>

MIPS_Reset ==
    /\ call.obj = "MIPS"
    /\ mips' = reset(mips)
    /\ pipeline' = NewPipeline
    /\ lastTick' = NoTick
    /\ fed' = << >>
    /\ call' = Called("MIPS", "reset", TRUE)
    /\ UNCHANGED <<sim, predictor>>

MIPS_Step ==
    /\ call.obj = "MIPS"
    /\ \/ programEnded(mips)
       \/ /\ mips.cycleCount < MaxCycles
          /\ mips.pipelineEnabled => Len(fed) < MaxCycles
    /\ LET r == step(mips, pipeline)
       IN  /\ mips' = r.m
           /\ pipeline' = r.p
           /\ lastTick' = IF r.ticked THEN TickRecord(r.stalled, r.ex) ELSE lastTick
           /\ fed' = IF r.ticked THEN Append(fed, r.instr) ELSE fed
    /\ call' = Called("MIPS", "step", TRUE)
    /\ UNCHANGED <<sim, predictor>>

MIPS_SetRegister ==
    /\ call.obj = "MIPS"
    /\ \E reg \in Registers : \E value \in Values :
        mips' = setRegister(mips, reg, value)
    /\ call' = Called("MIPS", "setRegister", TRUE)
    /\ UNCHANGED <<pipeline, lastTick, fed, sim, predictor>>

MIPS_SetPC ==
    /\ call.obj = "MIPS"
    /\ mips' = setPC(mips, 0)
    /\ call' = Called("MIPS", "setPC", TRUE)
    /\ UNCHANGED <<pipeline, lastTick, fed, sim, predictor>>

MIPS_SetMemoryWord ==
    /\ call.obj = "MIPS"
    /\ \E w \in MipsWords : mips' = MIPS_setMemoryWord(mips, 0, w)
    /\ call' = Called("MIPS", "setMemoryWord", TRUE)
    /\ UNCHANGED <<pipeline, lastTick, fed, sim, predictor>>

MIPS_EnablePipeline ==
    /\ call.obj = "MIPS"
    /\ \E enable \in BOOLEAN : mips' = enablePipeline(mips, enable)
    /\ call' = Called("MIPS", "enablePipeline", TRUE)
    /\ UNCHANGED <<pipeline, lastTick, fed, sim, predictor>>

Sim_LoadProgramFromString ==
    /\ call.obj = "MIPSSimulator"
    /\ \E words \in SimPrograms : sim' = loadProgramFromString(sim, words)
    /\ call' = Called("MIPSSimulator", "loadProgramFromString", TRUE)
    /\ UNCHANGED <<mips, pipeline, lastTick, fed, predictor>>

Sim_Reset ==
    /\ call.obj = "MIPSSimulator"
    /\ sim' = Sim_reset(sim)
    /\ call' = Called("MIPSSimulator", "reset", TRUE)
    /\ UNCHANGED <<mips, pipeline, lastTick, fed, predictor>>

Sim_Step ==
    /\ call.obj = "MIPSSimulator"
    /\ sim.halted \/ ~isValidAddress(sim.pc) \/ sim.pc <= MaxPC
    /\ sim.branch_stats.total_branches < MaxBranches
    /\ LET r == Sim_step(sim)
       IN  /\ sim' = r.sim
           /\ call' = Called("MIPSSimulator", "step", r.ret)
    /\ UNCHANGED <<mips, pipeline, lastTick, fed, predictor>>

Sim_SetRegister ==
    /\ call.obj = "MIPSSimulator"
    /\ \E reg \in Registers : \E value \in Values :
        sim' = Sim_setRegister(sim, reg, value)
    /\ call' = Called("MIPSSimulator", "setRegister", TRUE)
    /\ UNCHANGED <<mips, pipeline, lastTick, fed, predictor>>

Sim_SetPC ==
    /\ call.obj = "MIPSSimulator"
    /\ sim' = Sim_setPC(sim, 0)
    /\ call' = Called("MIPSSimulator", "setPC", TRUE)
    /\ UNCHANGED <<mips, pipeline, lastTick, fed, predictor>>

Sim_EnablePipeline ==
    /\ call.obj = "MIPSSimulator"
    /\ \E enable \in BOOLEAN : sim' = Sim_enablePipeline(sim, enable)
    /\ call' = Called("MIPSSimulator", "enablePipeline", TRUE)
    /\ UNCHANGED <<mips, pipeline, lastTick, fed, predictor>>

Next ==
    \/ MIPS_LoadProgram
    \/ MIPS_Reset
    \/ MIPS_Step
    \/ MIPS_SetRegister
    \/ MIPS_SetPC
    \/ MIPS_SetMemoryWord
    \/ MIPS_EnablePipeline
    \/ Sim_LoadProgramFromString
    \/ Sim_Reset
    \/ Sim_Step
    \/ Sim_SetRegister
    \/ Sim_SetPC
    \/ Sim_EnablePipeline

Spec == Init /\ [][Next]_vars

---------------------------------------------------------------------------
(* LiveSpec: main() configures a MIPSSimulator, loads a program and then    *)
(* either calls step() again and again or calls run() once.  The loop of   *)
(* run() is taken one pass at a time; call.running says it has not left.   *)

LivePrograms == {<<W_LW, W_ADD>>, <<W_J4, W_J>>}

LiveInit ==
    /\ mips = NewMIPS
    /\ pipeline = NewPipeline
    /\ lastTick = NoTick
    /\ fed = << >>
    /\ predictor = NoPredictor
    /\ \E words \in LivePrograms : \E enable \in BOOLEAN :
        sim = loadProgramFromString(Sim_enablePipeline(NewSim, enable), words)
    /\ \E op \in {"step", "run"} :
        call = [obj |-> "MIPSSimulator", op |-> op, ret |-> TRUE,
                running |-> op = "run"]

Live_Step ==
    /\ call.op = "step"
    /\ LET r == Sim_step(sim)
       IN  /\ sim' = r.sim
           /\ call' = [call EXCEPT !.ret = r.ret]
    /\ UNCHANGED <<mips, pipeline, lastTick, fed, predictor>>

Live_Run ==
    /\ call.op = "run"
    /\ call.running
    /\ LET r == runIteration(sim)
       IN  /\ sim' = r.sim
           /\ call' = [call EXCEPT !.running = r.again]
    /\ UNCHANGED <<mips, pipeline, lastTick, fed, predictor>>

LiveNext == Live_Step \/ Live_Run

\* the driver's loop and the loop of run() always go on to their next pass
LiveSpec == LiveInit /\ [][LiveNext]_vars /\ WF_vars(Live_Step) /\ WF_vars(Live_Run)

---------------------------------------------------------------------------
(* PredSpec: a driver that owns one branch predictor, built by the factory *)
(* or the map-based class, and calls predict, update and reset in any      *)
(* order                                                                   *)

PredictorTypes ==
    {"STATIC_NOT_TAKEN", "STATIC_TAKEN", "STATIC_BTFN", "BIMODAL_1BIT",
     "BIMODAL_2BIT", "GSHARE", "LOCAL_HISTORY", "TOURNAMENT"}
MapPredictorTypes == {"STATIC_NOT_TAKEN", "STATIC_TAKEN", "DYNAMIC_1BIT", "DYNAMIC_2BIT"}
PredictorParams == {<<1, 2>>, <<2, 1>>}
BranchPCs == {0, 4}
BranchTargets == {0, 8}

PredCalled(op, pc, targetAddress, taken, ret) ==
    [obj |-> "BranchPredictor", op |-> op, ret |-> ret, running |-> FALSE,
     pc |-> pc, targetAddress |-> targetAddress, taken |-> taken]

PredInit ==
    /\ mips = NewMIPS
    /\ pipeline = NewPipeline
    /\ lastTick = NoTick
    /\ fed = << >>
    /\ sim = NewSim
    /\ \/ \E type \in PredictorTypes : \E params \in PredictorParams :
            predictor = BranchPredictorFactory_create(type, params[1], params[2])
       \/ \E type \in MapPredictorTypes : predictor = NewBranchPredictor(type)
    /\ call = PredCalled("create", 0, 0, FALSE, FALSE)

Pred_Predict ==
    /\ predictor.type = "BranchPredictor" => Predictor_stats(predictor).total < MaxBranches
    /\ \E pc \in BranchPCs : \E targetAddress \in BranchTargets :
        LET r == Predictor_predict(predictor, pc, targetAddress)
        IN  /\ predictor' = r.p
            /\ call' = PredCalled("predict", pc, targetAddress, FALSE, r.ret)
    /\ UNCHANGED <<mips, pipeline, lastTick, fed, sim>>

Pred_Update ==
    /\ Predictor_stats(predictor).total < MaxBranches
    /\ Predictor_stats(predictor).correct + Predictor_stats(predictor).mispredicted
            < MaxBranches
    /\ \E pc \in BranchPCs : \E targetAddress \in BranchTargets : \E taken \in BOOLEAN :
        /\ predictor' = Predictor_update(predictor, pc, taken, targetAddress)
        /\ call' = PredCalled("update", pc, targetAddress, taken, FALSE)
    /\ UNCHANGED <<mips, pipeline, lastTick, fed, sim>>

Pred_Reset ==
    /\ predictor' = Predictor_reset(predictor)
    /\ call' = PredCalled("reset", 0, 0, FALSE, FALSE)
    /\ UNCHANGED <<mips, pipeline, lastTick, fed, sim>>

PredNext == Pred_Predict \/ Pred_Update \/ Pred_Reset

PredSpec == PredInit /\ [][PredNext]_vars

---------------------------------------------------------------------------
(* BranchSpec: the driver of main(): a MIPSSimulator configured with       *)
(* enablePipeline and enableBranchPrediction, then loaded, stepped and     *)
(* reset in any order                                                      *)

BranchPrograms == {<<W_BNE, W_BEQ1>>}
PredictionTypes == {"static", "dynamic", "2bit"}

BranchInit ==
    /\ mips = NewMIPS
    /\ pipeline = NewPipeline
    /\ lastTick = NoTick
    /\ fed = << >>
    /\ predictor = NoPredictor
    /\ \E enable \in BOOLEAN : \E type \in PredictionTypes :
        sim = enableBranchPrediction(NewSim, enable, type)
    /\ call = Called("MIPSSimulator", "enableBranchPrediction", TRUE)

Sim_LoadBranchProgram ==
    /\ call.obj = "MIPSSimulator"
    /\ \E words \in BranchPrograms : sim' = loadProgramFromString(sim, words)
    /\ call' = Called("MIPSSimulator", "loadProgramFromString", TRUE)
    /\ UNCHANGED <<mips, pipeline, lastTick, fed, predictor>>

BranchNext ==
    \/ Sim_LoadBranchProgram
    \/ Sim_Reset
    \/ Sim_Step
    \/ Sim_SetRegister
    \/ Sim_EnablePipeline

BranchSpec == BranchInit /\ [][BranchNext]_vars

---------------------------------------------------------------------------
(* MemSpec: a driver that calls the memory accessors of a MIPS object, of  *)
(* its Pipeline (on the MIPS object's vector) and of a MIPSSimulator       *)

\* 0x100, the last word of the memory, the first address past it, and
\* the address 0xFFFFFFFD at which address + 3 wraps
MemAddresses == {256, 1048572, 1048573, -3}
\* the same for the simulator's memory
SimAddresses == {65532, 65533, -3}
\* a byte of the word at 0x100, and addresses past the end
ByteAddresses == {256, 1048576, -1}
\* 0x11223344 and 0xFF0000EE
MemValues == {287454020, -16776978}
MemBytes == {68}

MemCalled(obj, op, address, value, ret, crashed) ==
    [obj |-> obj, op |-> op, ret |-> ret, running |-> FALSE,
     address |-> address, value |-> value, crashed |-> crashed]

MemInit ==
    /\ mips = NewMIPS
    /\ pipeline = NewPipeline
    /\ lastTick = NoTick
    /\ fed = << >>
    /\ predictor = NoPredictor
    /\ sim = NewSim
    /\ call = MemCalled("MIPS", "MIPS", 0, 0, 0, FALSE)

\* a word read by MIPS::getMemoryWord or Pipeline::getMemoryWord: what it
\* returns, or that the out-of-bounds index ended the process
Mem_readWord(obj, op) ==
    /\ ~call.crashed
    /\ \E address \in MemAddresses :
        IF indexesOutOfBounds(address, MIPS_MEMORY_SIZE)
        THEN \/ call' = MemCalled(obj, op, address, 0, 0, TRUE)
             \/ \E garbage \in GarbageBytes :
                    call' = MemCalled(obj, op, address, 0,
                                      wildReadWord(mips.memory, address,
                                                   MIPS_MEMORY_SIZE, garbage), FALSE)
        ELSE call' = MemCalled(obj, op, address, 0,
                               IF obj = "MIPS" THEN MIPS_getMemoryWord(mips, address)
                               ELSE Pipeline_getMemoryWord(mips.memory, address), FALSE)
    /\ UNCHANGED <<mips, pipeline, lastTick, fed, sim, predictor>>

\* a word written by MIPS::setMemoryWord or Pipeline::setMemoryWord
Mem_writeWord(obj, op) ==
    /\ ~call.crashed
    /\ \E address \in MemAddresses : \E value \in MemValues :
        IF indexesOutOfBounds(address, MIPS_MEMORY_SIZE)
        THEN \/ /\ call' = MemCalled(obj, op, address, value, 0, TRUE)
                /\ mips' = mips
             \/ /\ call' = MemCalled(obj, op, address, value, 0, FALSE)
                /\ mips' = [mips EXCEPT !.memory =
                                wildWriteWord(@, address, MIPS_MEMORY_SIZE, value)]
        ELSE /\ call' = MemCalled(obj, op, address, value, 0, FALSE)
             /\ mips' = IF obj = "MIPS" THEN MIPS_setMemoryWord(mips, address, value)
                        ELSE [mips EXCEPT !.memory =
                                Pipeline_setMemoryWord(@, address, value)]
    /\ UNCHANGED <<pipeline, lastTick, fed, sim, predictor>>

Mem_GetMemoryWord == Mem_readWord("MIPS", "getMemoryWord")

Mem_SetMemoryWord == Mem_writeWord("MIPS", "setMemoryWord")

Mem_PipelineGetMemoryWord == Mem_readWord("Pipeline", "getMemoryWord")

Mem_PipelineSetMemoryWord == Mem_writeWord("Pipeline", "setMemoryWord")

Mem_GetMemoryByte ==
    /\ ~call.crashed
    /\ \E address \in ByteAddresses :
        call' = MemCalled("MIPS", "getMemoryByte", address, 0,
                          MIPS_getMemoryByte(mips, address), FALSE)
    /\ UNCHANGED <<mips, pipeline, lastTick, fed, sim, predictor>>

Mem_SetMemoryByte ==
    /\ ~call.crashed
    /\ \E address \in ByteAddresses : \E value \in MemBytes :
        /\ mips' = MIPS_setMemoryByte(mips, address, value)
        /\ call' = MemCalled("MIPS", "setMemoryByte", address, value, 0, FALSE)
    /\ UNCHANGED <<pipeline, lastTick, fed, sim, predictor>>

Mem_SimGetMemory ==
    /\ ~call.crashed
    /\ \E address \in SimAddresses :
        call' = MemCalled("MIPSSimulator", "getMemory", address, 0,
                          Sim_getMemory(sim, address), FALSE)
    /\ UNCHANGED <<mips, pipeline, lastTick, fed, sim, predictor>>

Mem_SimSetMemory ==
    /\ ~call.crashed
    /\ \E address \in SimAddresses : \E value \in MemValues :
        /\ sim' = Sim_setMemory(sim, address, value)
        /\ call' = MemCalled("MIPSSimulator", "setMemory", address, value, 0, FALSE)
    /\ UNCHANGED <<mips, pipeline, lastTick, fed, predictor>>

MemNext ==
    \/ Mem_GetMemoryWord
    \/ Mem_SetMemoryWord
    \/ Mem_PipelineGetMemoryWord
    \/ Mem_PipelineSetMemoryWord
    \/ Mem_GetMemoryByte
    \/ Mem_SetMemoryByte
    \/ Mem_SimGetMemory
    \/ Mem_SimSetMemory

MemSpec == MemInit /\ [][MemNext]_vars

---------------------------------------------------------------------------
(* LoadSpec: main() and the command loop: program texts are loaded into a  *)
(* MIPSSimulator, which is stepped and has its registers set and its       *)
(* pipeline switched; or programs are loaded into a MIPS object whose      *)
(* registers and memory are set                                            *)

L_12 == <<"1", "2">>
L_34 == <<"3", "4">>
L_zz == <<"z", "z">>
L_1z == <<"1", "z">>
L_comment == <<"#", "c">>

\* one more word than the memory holds; the last line is the only one that
\* is not 0
TooManyWords ==
    [k \in 1..(SIM_MEMORY_SIZE \div 4 + 1) |->
        IF k = SIM_MEMORY_SIZE \div 4 + 1 THEN L_12 ELSE <<"0">>]

TextPrograms == {<<L_12, L_34>>, <<L_comment, << >>, L_34>>, <<L_12, L_zz>>, <<L_1z>>}

\* the files main() is started with
MainFiles == {FileOf(TooManyWords), FileOf(<<L_34, L_12>>), NoFile}

LoadCalled(op, file, r) ==
    [obj |-> "MIPSSimulator", op |-> op, ret |-> r.ret, running |-> FALSE,
     opened |-> file.opens, program |-> file.lines, thrown |-> r.thrown]

\* the exception that left loadProgram has ended the process
Terminated == call.obj = "MIPSSimulator" /\ call.op = "loadProgram" /\ call.thrown

LoadInit ==
    /\ mips = NewMIPS
    /\ pipeline = NewPipeline
    /\ lastTick = NoTick
    /\ fed = << >>
    /\ predictor = NoPredictor
    /\ sim = NewSim
    /\ \E obj \in {"MIPS", "MIPSSimulator"} : call = Called(obj, obj, TRUE)

Load_LoadProgramFromString ==
    /\ call.obj = "MIPSSimulator"
    /\ ~Terminated
    /\ \E program \in TextPrograms :
        LET r == loadProgramFromString_text(sim, program)
        IN  /\ sim' = r.sim
            /\ call' = LoadCalled("loadProgramFromString", FileOf(program), r)
    /\ UNCHANGED <<mips, pipeline, lastTick, fed, predictor>>

\* main(): the program file of the command line is loaded into the
\* simulator just constructed
Load_Main ==
    /\ call.op = "MIPSSimulator"
    /\ \E file \in MainFiles :
        LET r == Sim_loadProgram(sim, file)
        IN  /\ sim' = r.sim
            /\ call' = LoadCalled("loadProgram", file, r)
    /\ UNCHANGED <<mips, pipeline, lastTick, fed, predictor>>

\* the load command of CLIInterface
Load_LoadProgram ==
    /\ call.obj = "MIPSSimulator"
    /\ ~Terminated
    /\ \E file \in {FileOf(program) : program \in TextPrograms} \cup {NoFile} :
        LET r == Sim_loadProgram(sim, file)
        IN  /\ sim' = r.sim
            /\ call' = LoadCalled("loadProgram", file, r)
    /\ UNCHANGED <<mips, pipeline, lastTick, fed, predictor>>

Load_Step == ~Terminated /\ Sim_Step

Load_SetRegister == ~Terminated /\ Sim_SetRegister

Load_EnablePipeline == ~Terminated /\ Sim_EnablePipeline

LoadNext ==
    \/ Load_Main
    \/ Load_LoadProgramFromString
    \/ Load_LoadProgram
    \/ Load_Step
    \/ Load_SetRegister
    \/ Load_EnablePipeline
    \/ MIPS_LoadProgram
    \/ MIPS_SetRegister
    \/ MIPS_SetMemoryWord

LoadSpec == LoadInit /\ [][LoadNext]_vars

---------------------------------------------------------------------------
(* UnknownSpec: words whose opcode / funct pair getInstructionFormat does  *)
(* not map are fed to a Pipeline, stored in the memory of a MIPS object    *)
(* that is stepped, or loaded into a MIPSSimulator that is stepped         *)

W_UNKNOWN_R == EncR(0, 0, 29, 0, 63)  \* opcode 0, funct 0x3F, rd = $sp
W_UNKNOWN_I == EncI(63, 0, 1, 5)      \* opcode 0x3F, rt = $1

UnknownWords == {W_UNKNOWN_R, W_UNKNOWN_I}
UnknownPrograms == {<<W_UNKNOWN_R, W_UNKNOWN_I>>, <<W_UNKNOWN_I, W_ADDI>>}

UnknownInit ==
    /\ mips = NewMIPS
    /\ pipeline = NewPipeline
    /\ lastTick = NoTick
    /\ fed = << >>
    /\ predictor = NoPredictor
    /\ sim = NewSim
    /\ \E obj \in {"Pipeline", "MIPS", "MIPSSimulator"} : call = Called(obj, obj, TRUE)

Unknown_Tick ==
    /\ call.obj = "Pipeline"
    /\ Len(fed) < MaxTicks
    /\ \E w \in UnknownWords \cup {W_ADDI} :
        LET instr == decode(w)
            t == tick(pipeline, mips.registers, mips.memory, instr,
                      Add32(TEXT_BASE, 4 * Len(fed)))
        IN  /\ pipeline' = t.p
            /\ mips' = [mips EXCEPT !.registers = t.registers, !.memory = t.memory]
            /\ lastTick' = TickRecord(t.stalled, t.ex)
            /\ fed' = Append(fed, instr)
    /\ call' = Called("Pipeline", "tick", TRUE)
    /\ UNCHANGED <<sim, predictor>>

Unknown_SetMemoryWord ==
    /\ call.obj = "MIPS"
    /\ \E address \in {0, 4} : \E w \in UnknownWords :
        mips' = MIPS_setMemoryWord(mips, address, w)
    /\ call' = Called("MIPS", "setMemoryWord", TRUE)
    /\ UNCHANGED <<pipeline, lastTick, fed, sim, predictor>>

Unknown_LoadProgramFromString ==
    /\ call.obj = "MIPSSimulator"
    /\ \E words \in UnknownPrograms : sim' = loadProgramFromString(sim, words)
    /\ call' = Called("MIPSSimulator", "loadProgramFromString", TRUE)
    /\ UNCHANGED <<mips, pipeline, lastTick, fed, predictor>>

UnknownNext ==
    \/ Unknown_Tick
    \/ Unknown_SetMemoryWord
    \/ MIPS_SetPC
    \/ MIPS_EnablePipeline
    \/ MIPS_Step
    \/ Unknown_LoadProgramFromString
    \/ Sim_SetRegister
    \/ Sim_Step

UnknownSpec == UnknownInit /\ [][UnknownNext]_vars

---------------------------------------------------------------------------
(* DecodeSpec: words are decoded by InstructionDecoder::decode, and a MIPS *)
(* object is loaded and stepped (every word it fetches is 0x00000000)      *)

\* a word of every funct with opcode 0, a word of every opcode, and 0
DecodeWords ==
    {EncR(1, 2, 3, 0, funct) : funct \in 0..63}
        \cup {EncI(opcode, 1, 2, 5) : opcode \in 0..63} \cup {0}

DecodeCalled(op, word, ret) ==
    [obj |-> "InstructionDecoder", op |-> op, ret |-> ret, running |-> FALSE,
     word |-> word]

DecodeInit ==
    /\ mips = NewMIPS
    /\ pipeline = NewPipeline
    /\ lastTick = NoTick
    /\ fed = << >>
    /\ predictor = NoPredictor
    /\ sim = NewSim
    /\ \E obj \in {"InstructionDecoder", "MIPS"} : call = Called(obj, obj, TRUE)

Decode_Decode ==
    /\ call.obj = "InstructionDecoder"
    /\ \E word \in DecodeWords : call' = DecodeCalled("decode", word, decode(word))
    /\ UNCHANGED <<mips, pipeline, lastTick, fed, sim, predictor>>

\* the operations of the instruction set
Mnemonics ==
    {"ADD", "SUB", "AND", "OR", "NOR", "XOR", "SLT", "SLTU", "SLL", "SRL",
     "SRA", "JR", "JALR", "ADDI", "ADDIU", "ANDI", "ORI", "XORI", "SLTI",
     "SLTIU", "LUI", "LW", "LH", "LB", "LBU", "LHU", "SW", "SH", "SB",
     "BEQ", "BNE", "BLEZ", "BGTZ", "BLTZ", "BGEZ", "J", "JAL", "NOP"}

\* the fields written on an assembly line
OperandChoices ==
    [rs : {1, 31}, rt : {2}, rd : {3}, shamt : {4},
     immediate : {5, 65535}, jumpTarget : {1, 67108863}]

\* what the uninitialised locals of assembleInstruction may hold
LocalChoices ==
    {[rd |-> 0, rs |-> 0, rt |-> 0], [rd |-> 3, rs |-> 1, rt |-> 2],
     [rd |-> 255, rs |-> 255, rt |-> 255]}

AssembleCalled(mnemonic, operands, word, ret) ==
    [obj |-> "InstructionDecoder", op |-> "assembleProgram", ret |-> ret,
     running |-> FALSE, word |-> word, mnemonic |-> mnemonic, operands |-> operands]

\* InstructionDecoder::assembleProgram on one line: the line is assembled
\* and the word decoded
Decode_Assemble ==
    /\ call.obj = "InstructionDecoder"
    /\ \E mnemonic \in Mnemonics : \E operands \in OperandChoices :
       \E locals \in LocalChoices :
        LET machineCode == assembleInstruction(mnemonic, operands, locals)
        IN  call' = AssembleCalled(mnemonic, operands, machineCode, decode(machineCode))
    /\ UNCHANGED <<mips, pipeline, lastTick, fed, sim, predictor>>

DecodeNext ==
    \/ Decode_Decode
    \/ Decode_Assemble
    \/ MIPS_LoadProgram
    \/ MIPS_EnablePipeline
    \/ MIPS_Step

DecodeSpec == DecodeInit /\ [][DecodeNext]_vars

---------------------------------------------------------------------------
(* ScenSpec: the scenario programs run to the end.  A MIPS object is       *)
(* loaded and run(), a MIPSSimulator is configured, loaded and run() next  *)
(* to a BTFNPredictor that is told every branch, or a Pipeline is handed   *)
(* the program's instructions in order and then nops                       *)

MaxPasses == 24

\* S1: addi $v0, $zero, 5; addi $v1, $zero, 3; add $a0, $v1, $v0
S1Program == <<EncI(8, 0, 2, 5), EncI(8, 0, 3, 3), EncR(3, 2, 4, 0, 32)>>

W_JR_RA == EncR(31, 0, 0, 0, 8)       \* jr   $ra
W_ADDI9 == EncI(8, 0, 2, 9)           \* addi $v0, $zero, 9

\* S5 at address 0: jal 0x10; addi $1, $0, 5; addi $v0, $0, 9; j 0x10000;
\* and the leaf routine jr $ra at 0x10
S5SimProgram == <<EncJ(3, 4), W_ADDI, W_ADDI9, W_JOUT, W_JR_RA>>

\* S5 at address 0x400000: jal 0x400010; ...; j 0x400014; jr $ra
S5MipsProgram ==
    <<EncJ(3, 1048580), W_ADDI, W_ADDI9, EncJ(2, 1048581), W_JR_RA>>

\* S3 at address 0: addi $t1, $zero, 10; addi $t0, $t0, 1; bne $t0, $t1, -2;
\* j 0x10000
S3Program == <<EncI(8, 0, 9, 10), EncI(8, 8, 8, 1), EncI(5, 8, 9, 65534), W_JOUT>>

MipsScenarios == {S1Program, S5MipsProgram}
SimScenarios == {S1Program, S3Program, S5SimProgram}

\* the --pred-type strings handed to enableBranchPrediction
ScenPredictionTypes == PredictionTypes \cup {"btfn"}

\* the branch the non-pipelined step of the simulator is about to execute:
\* its pc, its outcome and its target
branchAt(s) ==
    LET instr == decodeInstruction(readWord(s.memory, s.pc))
        R == s.registers
    IN  [isBranch |-> /\ ~s.halted /\ ~s.pipeline_enabled /\ isValidAddress(s.pc)
                      /\ instr.type = "I"
                      /\ instr.opcode \in {OPCODE_BEQ, OPCODE_BNE},
         pc |-> s.pc,
         taken |-> IF instr.opcode = OPCODE_BEQ THEN R[instr.rs] = R[instr.rt]
                   ELSE R[instr.rs] # R[instr.rt],
         target |-> Add32(Add32(s.pc, 4), Shl2(signExtend16(instr.immediate)))]

\* passes counts the passes of the loop of run() (or the ticks handed to
\* the Pipeline) since the program was loaded
ScenCalled(obj, op, passes, running) ==
    [obj |-> obj, op |-> op, ret |-> TRUE, running |-> running, passes |-> passes]

ScenInit ==
    /\ pipeline = NewPipeline
    /\ lastTick = NoTick
    /\ fed = << >>
    /\ predictor = NewBTFNPredictor
    /\ \/ /\ \E words \in MipsScenarios : \E enable \in BOOLEAN :
               mips = loadProgram(enablePipeline(NewMIPS, enable), words)
          /\ sim = NewSim
          /\ \E obj \in {"MIPS", "Pipeline"} : call = ScenCalled(obj, "run", 0, TRUE)
       \/ /\ mips = NewMIPS
          /\ \E words \in SimScenarios : \E pipe \in BOOLEAN :
             \E predict \in BOOLEAN : \E type \in ScenPredictionTypes :
               sim = loadProgramFromString(
                         enableBranchPrediction(Sim_enablePipeline(NewSim, pipe),
                                                predict, type), words)
          /\ call = ScenCalled("MIPSSimulator", "run", 0, TRUE)

\* one pass of the loop of MIPS::run
Scen_MipsRun ==
    /\ call.obj = "MIPS"
    /\ call.running
    /\ call.passes < MaxPasses
    /\ IF programEnded(mips)
       THEN /\ call' = [call EXCEPT !.running = FALSE]
            /\ UNCHANGED <<mips, pipeline, lastTick, fed>>
       ELSE \E r \in {step(mips, pipeline)} :
                /\ mips' = r.m
                /\ pipeline' = r.p
                /\ lastTick' = IF r.ticked THEN TickRecord(r.stalled, r.ex) ELSE lastTick
                /\ fed' = IF r.ticked THEN Append(fed, r.instr) ELSE fed
                /\ call' = [call EXCEPT !.passes = @ + 1,
                                        !.running = ~r.m.stepMode]
    /\ UNCHANGED <<sim, predictor>>

\* one pass of the loop of MIPSSimulator::run; the driver hands every
\* branch the simulator executes to the update of its BTFNPredictor
Scen_SimRun ==
    /\ call.obj = "MIPSSimulator"
    /\ call.running
    /\ call.passes < MaxPasses
    /\ \E r \in {runIteration(sim)} : \E b \in {branchAt(sim)} :
           /\ sim' = r.sim
           /\ call' = [call EXCEPT !.passes = @ + 1, !.running = r.again]
           /\ predictor' = IF b.isBranch
                            THEN BTFNPredictor_update(predictor, b.pc, b.taken, b.target)
                            ELSE predictor
    /\ UNCHANGED <<mips, pipeline, lastTick, fed>>

\* the instruction the driver of a Pipeline fetches at its k-th tick: the
\* program's k-th, and nops once the program is through
fetched(words, k) == IF k <= Len(words) THEN decode(words[k]) ELSE decode(W_NOP)

\* a tick of a Pipeline that is handed the program in order
Scen_Tick ==
    /\ call.obj = "Pipeline"
    /\ call.passes < MaxPasses
    /\ \E instr \in {fetched(mips.instructions, Len(fed) + 1)} :
       \E t \in {tick(pipeline, mips.registers, mips.memory, instr,
                      Add32(TEXT_BASE, 4 * Len(fed)))} :
           /\ pipeline' = t.p
           /\ mips' = [mips EXCEPT !.registers = t.registers, !.memory = t.memory]
           /\ lastTick' = TickRecord(t.stalled, t.ex)
           /\ fed' = Append(fed, instr)
    /\ call' = [call EXCEPT !.op = "tick", !.passes = @ + 1]
    /\ UNCHANGED <<sim, predictor>>

ScenNext == Scen_MipsRun \/ Scen_SimRun \/ Scen_Tick

ScenSpec == ScenInit /\ [][ScenNext]_vars

---------------------------------------------------------------------------
(* PatternSpec: a driver that tells a 2-bit predictor the outcomes of one  *)
(* branch occurrence after occurrence, asking for the prediction first or  *)
(* not                                                                     *)

MaxOccurrences == 32

\* the branch of scenario S4 and its target
PatternPCs == {4, 4194312}
PatternTarget == 0
\* the index bits of the BimodalPredictor
PatternBits == {1, 2}

\* the outcome of the k-th occurrence: T, T, T, N repeated
outcome(k) == k % 4 # 0

PatCalled(op, pc, occurrences, ret) ==
    [obj |-> "BranchPredictor", op |-> op, ret |-> ret, running |-> FALSE,
     pc |-> pc, occurrences |-> occurrences]

PatInit ==
    /\ mips = NewMIPS
    /\ pipeline = NewPipeline
    /\ lastTick = NoTick
    /\ fed = << >>
    /\ sim = NewSim
    /\ \/ \E bits \in PatternBits :
            predictor = BranchPredictorFactory_create("BIMODAL_2BIT", bits, 0)
       \/ predictor = NewBranchPredictor("DYNAMIC_2BIT")
    /\ \E pc \in PatternPCs : call = PatCalled("create", pc, 0, FALSE)

\* predict(pc) for the occurrence that comes next
Pat_Predict ==
    /\ call.op # "predict"
    /\ call.occurrences < MaxOccurrences
    /\ LET r == Predictor_predict(predictor, call.pc, PatternTarget)
       IN  /\ predictor' = r.p
           /\ call' = PatCalled("predict", call.pc, call.occurrences, r.ret)
    /\ UNCHANGED <<mips, pipeline, lastTick, fed, sim>>

\* update(pc, outcome) for the occurrence that comes next
Pat_Update ==
    /\ call.occurrences < MaxOccurrences
    /\ predictor' = Predictor_update(predictor, call.pc,
                                     outcome(call.occurrences + 1), PatternTarget)
    /\ call' = PatCalled("update", call.pc, call.occurrences + 1, FALSE)
    /\ UNCHANGED <<mips, pipeline, lastTick, fed, sim>>

PatNext == Pat_Predict \/ Pat_Update

PatternSpec == PatInit /\ [][PatNext]_vars

---------------------------------------------------------------------------
(* AluSpec: a caller of ALU::execute(operand1, operand2, op)               *)

\* 0x80000000 and 0x7FFFFFFF as signed images
INT32_MIN == Mk32(32768, 0)
INT32_MAX == Not32(INT32_MIN)

AluOperations == {"ADD", "SUB", "AND", "OR", "XOR", "NOR", "SLT", "SLTU"}
AluOperands == {0, 1, -1, 5, -5, INT32_MAX, INT32_MIN, INT32_MIN + 1}

AluCalled(operation, operand1, operand2, result) ==
    [obj |-> "ALU", op |-> "execute", ret |-> TRUE, running |-> FALSE,
     operation |-> operation, operand1 |-> operand1, operand2 |-> operand2,
     result |-> result]

AluInit ==
    /\ mips = NewMIPS
    /\ pipeline = NewPipeline
    /\ lastTick = NoTick
    /\ fed = << >>
    /\ predictor = NoPredictor
    /\ sim = NewSim
    /\ call = AluCalled("ADD", 0, 0, ALU_execute(0, 0, "ADD"))

Alu_Execute ==
    /\ \E operation \in AluOperations : \E a \in AluOperands : \E b \in AluOperands :
        call' = AluCalled(operation, a, b, ALU_execute(a, b, operation))
    /\ UNCHANGED <<mips, pipeline, lastTick, fed, sim, predictor>>

AluNext == Alu_Execute

AluSpec == AluInit /\ [][AluNext]_vars

---------------------------------------------------------------------------
(* IdSpec: a driver that hands a Pipeline one instruction of any operation *)
(* and then nops, until the instruction has left the pipeline              *)

MaxDrain == 6

\* one word of every operation the decoders and the opcode constants name:
\* op $3, $1, $2 for the R-type, op $4, $1, imm 5 for the I-type
IdRWords == {EncR(1, 2, 3, 0, funct) : funct \in {32, 34, 36, 37, 39, 42, 0, 2, 3}}
IdIWords == {EncI(opcode, 1, 4, 5) :
                opcode \in {8, 9, 12, 13, 14, 10, 11, 15, 35, 33, 32, 36, 37,
                            43, 41, 40, 4, 5, 6, 7}}
IdJWords == {EncJ(2, 4), EncJ(3, 4), W_JR_RA}
IdWords == IdRWords \cup IdIWords \cup IdJWords

\* the registers the driver starts with: $1 = 6 and $2 = 3 on top of the
\* constructor's
IdRegisters == setRegister(setRegister(NewMIPS, 1, 6), 2, 3).registers

IdCalled(word) == [obj |-> "Pipeline", op |-> "tick", ret |-> TRUE,
                   running |-> FALSE, word |-> word]

IdInit ==
    /\ mips = [NewMIPS EXCEPT !.registers = IdRegisters]
    /\ pipeline = NewPipeline
    /\ lastTick = NoTick
    /\ fed = << >>
    /\ predictor = NoPredictor
    /\ sim = NewSim
    /\ \E word \in IdWords : call = IdCalled(word)

\* a tick: the first fetches the instruction, the later ones nops
Id_Tick ==
    /\ Len(fed) < MaxDrain
    /\ \E instr \in {IF fed = << >> THEN decode(call.word) ELSE decode(W_NOP)} :
       \E t \in {tick(pipeline, mips.registers, mips.memory, instr,
                      Add32(TEXT_BASE, 4 * Len(fed)))} :
           /\ pipeline' = t.p
           /\ mips' = [mips EXCEPT !.registers = t.registers, !.memory = t.memory]
           /\ lastTick' = TickRecord(t.stalled, t.ex)
           /\ fed' = Append(fed, instr)
    /\ UNCHANGED <<sim, predictor, call>>

IdNext == Id_Tick

IdSpec == IdInit /\ [][IdNext]_vars

---------------------------------------------------------------------------
(* TournSpec: a driver that owns a TournamentPredictor and calls predict,  *)
(* update and reset in any order                                           *)

MaxUpdates == 5

ChoiceBits == {1, 2}

\* the call made last; for an update also its locals globalPrediction and
\* localPrediction and the chooser entry it found
TournCalled(op, pc, taken, ret) ==
    [obj |-> "TournamentPredictor", op |-> op, ret |-> ret, running |-> FALSE,
     pc |-> pc, targetAddress |-> 0, taken |-> taken,
     globalPrediction |-> FALSE, localPrediction |-> FALSE, choice |-> 1]

TournInit ==
    /\ mips = NewMIPS
    /\ pipeline = NewPipeline
    /\ lastTick = NoTick
    /\ fed = << >>
    /\ sim = NewSim
    /\ \E choiceBits \in ChoiceBits :
        predictor = BranchPredictorFactory_create("TOURNAMENT", choiceBits, 0)
    /\ call = TournCalled("create", 0, FALSE, FALSE)

Tourn_Predict ==
    /\ call.op # "predict"
    /\ \E pc \in BranchPCs :
        call' = TournCalled("predict", pc, FALSE,
                            TournamentPredictor_predict(predictor, pc, 0))
    /\ UNCHANGED <<mips, pipeline, lastTick, fed, sim, predictor>>

Tourn_Update ==
    /\ predictor.stats.totalBranches < MaxUpdates
    /\ \E pc \in BranchPCs : \E taken \in BOOLEAN :
        /\ predictor' = TournamentPredictor_update(predictor, pc, taken, 0)
        /\ call' = [TournCalled("update", pc, taken, FALSE) EXCEPT
                        !.globalPrediction =
                            GsharePredictor_predict(predictor.globalPredictor, pc, 0),
                        !.localPrediction =
                            LocalHistoryPredictor_predict(predictor.localPredictor, pc, 0),
                        !.choice =
                            tableAt(predictor.choiceTable,
                                    TournamentPredictor_getChoiceIndex(predictor, pc), 1)]
    /\ UNCHANGED <<mips, pipeline, lastTick, fed, sim>>

Tourn_Reset ==
    /\ call.op # "reset"
    /\ predictor' = TournamentPredictor_reset(predictor)
    /\ call' = TournCalled("reset", 0, FALSE, FALSE)
    /\ UNCHANGED <<mips, pipeline, lastTick, fed, sim>>

TournNext == Tourn_Predict \/ Tourn_Update \/ Tourn_Reset

TournSpec == TournInit /\ [][TournNext]_vars

---------------------------------------------------------------------------
(* HistSpec: a driver that owns one table-based predictor built by the     *)
(* factory, calls update and reset in any order, and keeps the outcomes it *)
(* has reported since the construction or the last reset                   *)

MaxHistory == 4

TableTypes == {"BIMODAL_1BIT", "BIMODAL_2BIT", "GSHARE", "LOCAL_HISTORY", "TOURNAMENT"}

\* (history bits, index bits) of gshare, (local bits, pattern bits) of the
\* local-history predictor; the first is the parameter of the others
HistParams == {<<1, 2>>, <<2, 1>>, <<2, 2>>}

\* branch addresses with bits above every index width, the last with the top
\* bit set (0xFFFFFFFC)
HistPCs == {4, 4194312, -4}

HistCalled(op, pc, taken) ==
    [obj |-> "BranchPredictor", op |-> op, ret |-> FALSE, running |-> FALSE,
     pc |-> pc, targetAddress |-> 0, taken |-> taken]

HistInit ==
    /\ mips = NewMIPS
    /\ pipeline = NewPipeline
    /\ lastTick = NoTick
    /\ fed = << >>
    /\ sim = NewSim
    /\ \E type \in TableTypes : \E params \in HistParams :
        predictor = BranchPredictorFactory_create(type, params[1], params[2])
    /\ call = HistCalled("create", 0, FALSE)

Hist_Update ==
    /\ Len(fed) < MaxHistory
    /\ \E pc \in HistPCs : \E taken \in BOOLEAN :
        /\ predictor' = Predictor_update(predictor, pc, taken, 0)
        /\ fed' = Append(fed, taken)
        /\ call' = HistCalled("update", pc, taken)
    /\ UNCHANGED <<mips, pipeline, lastTick, sim>>

Hist_Reset ==
    /\ call.op # "reset"
    /\ predictor' = Predictor_reset(predictor)
    /\ fed' = << >>
    /\ call' = HistCalled("reset", 0, FALSE)
    /\ UNCHANGED <<mips, pipeline, lastTick, sim>>

HistNext == Hist_Update \/ Hist_Reset

HistSpec == HistInit /\ [][HistNext]_vars

---------------------------------------------------------------------------
(* ExSpec: the driver of IdSpec with an instruction of an operation both   *)
(* execution paths implement and with any operand values in $1, $2 and $4  *)

\* immediates below and from 0x8000
ExImmediates == {5, 32767, 32768, 65535}

\* operand values: small, of both signs, and the ends of the int32_t range
ExOperands == {0, 5, -1, INT32_MIN, INT32_MAX}

\* ADD, SUB, AND, OR, NOR, SLT $3, $1, $2
ExRWords == {EncR(1, 2, 3, 0, funct) : funct \in {32, 34, 36, 37, 39, 42}}

\* ADDI, ANDI, ORI, LW, SW $4, imm($1)
ExIWords == {EncI(opcode, 1, 4, imm) : opcode \in {8, 12, 13, 35, 43}, imm \in ExImmediates}

ExInit ==
    /\ \E a \in ExOperands : \E b \in ExOperands :
        mips = setRegister(setRegister(setRegister(NewMIPS, 1, a), 2, b), 4, b)
    /\ pipeline = NewPipeline
    /\ lastTick = NoTick
    /\ fed = << >>
    /\ predictor = NoPredictor
    /\ sim = NewSim
    /\ \E word \in ExRWords \cup ExIWords : call = IdCalled(word)

ExNext == Id_Tick

ExSpec == ExInit /\ [][ExNext]_vars

---------------------------------------------------------------------------
(* DrainSpec: the driver of PipeSpec, which also notes the address of each *)
(* instruction whose write-back a tick performed and counts the ticks      *)
(* since an instruction last entered IF/ID                                 *)

MaxDrainTicks == 6

\* nop, a register write, its reader, a load, a store and a taken branch
DrainWords == {W_NOP, W_ADDI, W_ADD, W_LW, W_SW, W_BEQ}

DrainCalled(written, idle) ==
    [obj |-> "Pipeline", op |-> "tick", ret |-> TRUE, running |-> FALSE,
     written |-> written, idle |-> idle]

DrainInit ==
    /\ mips = NewMIPS
    /\ pipeline = NewPipeline
    /\ lastTick = NoTick
    /\ fed = << >>
    /\ predictor = NoPredictor
    /\ sim = NewSim
    /\ call = DrainCalled(<< >>, 0)

\* executeWB of this tick assigns registers[MEM_WB.writeReg]
writesBack(p, stalled) ==
    /\ ~stalled
    /\ p.MEM_WB.valid
    /\ p.MEM_WB.regWrite
    /\ p.MEM_WB.writeReg # 0

Drain_Tick ==
    /\ Len(fed) < MaxDrainTicks
    /\ \E w \in DrainWords :
       \E instr \in {decode(w)} : \E pc \in {Add32(TEXT_BASE, 4 * Len(fed))} :
       \E t \in {tick(pipeline, mips.registers, mips.memory, instr, pc)} :
           /\ pipeline' = t.p
           /\ mips' = [mips EXCEPT !.registers = t.registers, !.memory = t.memory]
           /\ lastTick' = TickRecord(t.stalled, t.ex)
           /\ fed' = Append(fed, instr)
           /\ call' = DrainCalled(
                        IF writesBack(pipeline, t.stalled)
                        THEN Append(call.written, pipeline.MEM_WB.pc)
                        ELSE call.written,
                        IF t.p.IF_ID.valid /\ t.p.IF_ID.pc = pc THEN 0
                        ELSE call.idle + 1)
    /\ UNCHANGED <<sim, predictor>>

DrainNext == Drain_Tick

DrainSpec == DrainInit /\ [][DrainNext]_vars

---------------------------------------------------------------------------
(* Claims about the latch pipeline, checked under PipeSpec *)

\* the step taken is a call of Pipeline::tick
Ticked == Len(fed') = Len(fed) + 1

\* the register an instruction writes (0 when it writes none), as executeID
\* determines it
destinationOf(instr) ==
    IF writesRD(instr) THEN instr.rd
    ELSE IF writesRT(instr) THEN instr.rt
    ELSE 0

\* the instruction reads register reg as a source
readsRegister(instr, reg) ==
    \/ (usesRS(instr) /\ instr.rs = reg)
    \/ (usesRT(instr) /\ instr.rt = reg)

\* C1: forwarding correctness.  When the instruction that has just run in EX
\* (now in EX/MEM) reads through rs the non-zero destination of the
\* instruction directly ahead of it (now in MEM/WB with its result in
\* writeData), the operand EX used is that result.
C1_ForwardingCorrectness ==
    (/\ ~lastTick.stalled
     /\ lastTick.exRan
     /\ pipeline.EX_MEM.valid
     /\ pipeline.MEM_WB.valid
     /\ pipeline.MEM_WB.regWrite
     /\ pipeline.MEM_WB.writeReg # 0
     /\ usesRS(pipeline.EX_MEM.instruction)
     /\ pipeline.EX_MEM.instruction.rs = pipeline.MEM_WB.writeReg)
    => lastTick.op1 = pipeline.MEM_WB.writeData

\* the load in ID/EX writes a source register of the instruction in IF/ID
LoadUseInLatches(p) ==
    /\ p.ID_EX.valid
    /\ p.IF_ID.valid
    /\ isLoad(p.ID_EX.instruction)
    /\ readsRegister(p.IF_ID.instruction, p.ID_EX.instruction.rt)

\* C2: the load-use stall lasts exactly one cycle.  A tick that starts with
\* a load in ID/EX feeding the instruction in IF/ID counts one stall, keeps
\* IF/ID and leaves a bubble in ID/EX (so the next tick is no stall); every
\* other tick leaves the stall counter alone.
C2_LoadUseStallOneCycle ==
    [][Ticked =>
        IF LoadUseInLatches(pipeline)
        THEN /\ pipeline'.stallCycles = pipeline.stallCycles + 1
             /\ pipeline'.IF_ID = pipeline.IF_ID
             /\ ~pipeline'.ID_EX.valid
        ELSE pipeline'.stallCycles = pipeline.stallCycles]_vars

\* C3: misprediction penalty.  After the tick in which EX resolved a branch
\* as taken, IF/ID and ID/EX are both bubbles; after the tick in which a J or
\* JAL was decoded into ID/EX, IF/ID is a bubble.
C3_MispredictionPenalty ==
    /\ lastTick.taken => (~pipeline.IF_ID.valid /\ ~pipeline.ID_EX.valid)
    /\ (/\ ~lastTick.stalled
        /\ pipeline.ID_EX.valid
        /\ pipeline.ID_EX.instruction.format \in {"J", "JAL"})
       => ~pipeline.IF_ID.valid

\* no instruction reads a register written by one of the three instructions
\* before it, and none is a branch or a jump
HazardFree(instrs) ==
    /\ \A k \in 1..Len(instrs) : ~isBranch(instrs[k]) /\ ~isJump(instrs[k])
    /\ \A i \in 1..Len(instrs) : \A j \in 1..Len(instrs) :
        (i < j /\ j <= i + 3 /\ destinationOf(instrs[i]) # 0)
        => ~readsRegister(instrs[j], destinationOf(instrs[i]))

\* the program has been followed by four nops, so that its last instruction
\* has passed WB
Drained(instrs) ==
    /\ Len(instrs) > 4
    /\ \A k \in (Len(instrs) - 3)..Len(instrs) : instrs[k].machineCode = W_NOP

\* the MIPS object after executeSingleCycle on each instruction in turn
RECURSIVE singleCycleRun(_, _, _)
singleCycleRun(m, instrs, k) ==
    IF k > Len(instrs) THEN m
    ELSE singleCycleRun(executeSingleCycle(m, instrs[k]), instrs, k + 1)

\* C4: pipelined/non-pipelined equivalence.  Once a hazard-free program has
\* gone through the pipeline, registers and memory are what executing the
\* same instructions one by one with executeSingleCycle gives.
C4_ModeEquivalence ==
    (HazardFree(fed) /\ Drained(fed))
    => LET m == singleCycleRun(NewMIPS, fed, 1)
       IN  mips.registers = m.registers /\ mips.memory = m.memory

---------------------------------------------------------------------------
(* Claims about termination, checked under LiveSpec *)

\* the word is a branch or a jump of MIPSSimulator::executeInstruction
isControlTransfer(word) ==
    LET instr == decodeInstruction(word)
    IN  \/ instr.type = "J"
        \/ instr.type = "I" /\ instr.opcode \in {OPCODE_BEQ, OPCODE_BNE}
        \/ instr.type = "R" /\ instr.funct = FUNCT_JR

\* no word of the memory image is a branch or a jump
StraightLine(s) ==
    \A a \in DOMAIN s.memory : ~isControlTransfer(readWord(s.memory, a - (a % 4)))

\* C5: termination.  With a straight-line program loaded, stepping again and
\* again (by step() calls or inside run()) eventually halts the engine, with
\* the pipeline enabled or not.
C5_Termination == StraightLine(sim) => <>sim.halted

\* C6: safety cap.  A call of run() with the pipeline disabled eventually
\* returns, whatever the program.
C6_RunReturns == (call.op = "run" /\ ~sim.pipeline_enabled) => <>(~call.running)

---------------------------------------------------------------------------
(* Claims about the cores' member functions, checked under Spec *)

\* the step taken is a call of MIPSSimulator::step
SimStepped == call'.obj = "MIPSSimulator" /\ call'.op = "step"

\* the step taken is a call of MIPS::step
MipsStepped == call'.obj = "MIPS" /\ call'.op = "step"

\* C7 as stated: step() on a core that is not halted returns true; on a
\* halted core it returns false and changes nothing.
C7_StepReturnsTrueUnlessHalted ==
    [][SimStepped =>
        IF sim.halted THEN call'.ret = FALSE /\ sim' = sim
        ELSE call'.ret = TRUE]_vars

\* C7, amended: MIPSSimulator::step returns true exactly when the core is
\* not halted after the call.  The step that finds the PC outside the memory
\* with the pipeline disabled sets halted, changes nothing else and returns
\* false; no other step halts the core.  On a halted core step() returns
\* false and changes nothing.  MIPS::step adds exactly one to cycleCount
\* while the PC is below the end of the program, and changes nothing once
\* the PC is at or past it.
C7_StepContract ==
    [][/\ SimStepped =>
            /\ call'.ret = ~sim'.halted
            /\ sim.halted => sim' = sim
            /\ (~sim.halted /\ sim'.halted) =>
                 /\ ~sim.pipeline_enabled
                 /\ ~isValidAddress(sim.pc)
                 /\ sim' = [sim EXCEPT !.halted = TRUE]
            /\ (~sim.halted /\ ~sim.pipeline_enabled /\ isValidAddress(sim.pc)) =>
                 /\ ~sim'.halted
                 /\ sim'.pc # sim.pc \/ isControlTransfer(readWord(sim.memory, sim.pc))
       /\ MipsStepped =>
            IF programEnded(mips)
            THEN mips' = mips /\ pipeline' = pipeline
            ELSE mips'.cycleCount = mips.cycleCount + 1]_vars

\* step() has been called on a core that was already halted: the PC was set
\* back into the memory after the halt, and the call returned false
C7_SteppedWhileHalted ==
    /\ call.obj = "MIPSSimulator"
    /\ call.op = "step"
    /\ call.ret = FALSE
    /\ sim.halted
    /\ sim.pc = 0

C9_CountsRetirements ==
    [][(MipsStepped /\ mips.pipelineEnabled /\ ~programEnded(mips)) =>
        mips'.instructionCount =
            mips.instructionCount
            + (IF pipeline.MEM_WB.valid /\ ~lastTick'.stalled THEN 1 ELSE 0)]_vars

\* C10: across a step() cycleCount does not decrease, and after it
\* instructionCount <= cycleCount, in both modes.
C10_Counters ==
    [][MipsStepped =>
        /\ mips'.cycleCount >= mips.cycleCount
        /\ mips'.instructionCount <= mips'.cycleCount]_vars

\* two cycles have been counted since the last load, the last of them by a
\* step with the pipeline disabled after a tick of the pipeline
C10_SteppedInBothModes ==
    /\ call.obj = "MIPS"
    /\ call.op = "step"
    /\ mips.cycleCount = 2
    /\ mips.instructionCount = 2
    /\ ~mips.pipelineEnabled
    /\ Len(fed) > 0

---------------------------------------------------------------------------
(* Claims about the branch predictors, checked under PredSpec *)

\* the step is a call of predict / of update
Predicted == call'.obj = "BranchPredictor" /\ call'.op = "predict"
Updated == call'.obj = "BranchPredictor" /\ call'.op = "update"

\* C11: after any interleaving of predict, update and reset on any
\* predictor variant, correct + mispredicted = total (for the tournament
\* predictor also in its two sub-predictors).
C11_StatsConsistent ==
    LET consistent(p) ==
            LET s == Predictor_stats(p)
            IN  s.correct + s.mispredicted = s.total
    IN  predictor.type # "none" =>
            /\ consistent(predictor)
            /\ predictor.type = "TOURNAMENT" =>
                    /\ consistent(predictor.globalPredictor)
                    /\ consistent(predictor.localPredictor)

\* C12: predict is a pure query: a call of predict leaves the predictor
\* (tables, histories, statistics) as it was, so that every later update
\* has the effect it would have had without the call.
C12_PredictIsPure ==
    [][Predicted =>
        /\ predictor' = predictor
        /\ \A pc \in BranchPCs : \A targetAddress \in BranchTargets : \A taken \in BOOLEAN :
                Predictor_update(predictor', pc, taken, targetAddress)
                    = Predictor_update(predictor, pc, taken, targetAddress)]_vars

\* the 2-bit counter that predict(pc) consults in predictor p, read in
\* predictor q (p itself, or p after an update); an entry the map-based
\* table does not hold yet is in the initial state WNT
selectedCounter(p, q, pc) ==
    CASE p.type = "BIMODAL_2BIT" ->
            tableAt(q.table, BimodalPredictor_getIndex(p, pc), 1)
      [] p.type = "GSHARE" -> tableAt(q.table, GsharePredictor_getIndex(p, pc), 1)
      [] p.type = "LOCAL_HISTORY" ->
            tableAt(q.patternHistoryTable,
                    LocalHistoryPredictor_getPatternIndex(p,
                        tableAt(p.localHistoryTable,
                                LocalHistoryPredictor_getLocalIndex(p, pc), 0)), 1)
      [] p.type = "BranchPredictor" ->
            IF pc \in DOMAIN q.branch_history_table THEN q.branch_history_table[pc]
            ELSE WEAKLY_NOT_TAKEN

\* the predictors that predict from one table of 2-bit counters
hasTwoBitTable(p) ==
    \/ p.type \in {"BIMODAL_2BIT", "GSHARE", "LOCAL_HISTORY"}
    \/ p.type = "BranchPredictor" /\ p.predictor_type = "DYNAMIC_2BIT"

\* every entry of a table is one of the four states
inFourStates(table) == \A i \in DOMAIN table : table[i] \in 0..3

twoBitTablesInRange(p) ==
    CASE p.type \in {"BIMODAL_2BIT", "GSHARE"} -> inFourStates(p.table)
      [] p.type = "LOCAL_HISTORY" -> inFourStates(p.patternHistoryTable)
      [] p.type = "TOURNAMENT" ->
            /\ inFourStates(p.choiceTable)
            /\ inFourStates(p.globalPredictor.table)
            /\ inFourStates(p.localPredictor.patternHistoryTable)
      [] p.type = "BranchPredictor" /\ p.predictor_type = "DYNAMIC_2BIT" ->
            inFourStates(p.branch_history_table)
      [] OTHER -> TRUE

\* the four-state saturating machine: up on taken, down on not taken
fourStateFSM(counter, taken) ==
    IF taken THEN (IF counter = 3 THEN 3 ELSE counter + 1)
    ELSE (IF counter = 0 THEN 0 ELSE counter - 1)

\* one update seen as a step of the machine, in predictor p and its
\* successor q
followsFSM(p, q, pc, taken, targetAddress) ==
    hasTwoBitTable(p) =>
        /\ selectedCounter(p, q, pc) = fourStateFSM(selectedCounter(p, p, pc), taken)
        /\ Predictor_predict(p, pc, targetAddress).ret = (selectedCounter(p, p, pc) >= 2)

\* C13: the 2-bit counters, starting from WNT, stay in {0,1,2,3}; an update
\* moves the counter selected for its pc up by one on taken (3 stays 3) and
\* down by one on not taken (0 stays 0), and taken is predicted iff the
\* counter is at least 2.  For the tournament predictor this is stated of
\* its gshare and local-history members, and the range of its chooser.
C13_TwoBitFSM ==
    [][Updated =>
        /\ twoBitTablesInRange(predictor')
        /\ followsFSM(predictor, predictor', call'.pc, call'.taken, call'.targetAddress)
        /\ predictor.type = "TOURNAMENT" =>
            /\ followsFSM(predictor.globalPredictor, predictor'.globalPredictor,
                          call'.pc, call'.taken, call'.targetAddress)
            /\ followsFSM(predictor.localPredictor, predictor'.localPredictor,
                          call'.pc, call'.taken, call'.targetAddress)]_vars

\* C14: update(pc, taken, target) counts the outcome as correct iff
\* predict(pc, target), evaluated on the predictor as it was immediately
\* before the update, returns taken, and as mispredicted otherwise.
C14_ScoresPreUpdatePrediction ==
    [][Updated =>
        LET before == Predictor_stats(predictor)
            after == Predictor_stats(predictor')
            hit == Predictor_predict(predictor, call'.pc, call'.targetAddress).ret
                        = call'.taken
        IN  /\ after.correct = before.correct + (IF hit THEN 1 ELSE 0)
            /\ after.mispredicted = before.mispredicted + (IF hit THEN 0 ELSE 1)]_vars

\* an update of a tournament predictor whose chooser has moved and that has
\* scored both a hit and a miss
C14_TournamentScored ==
    /\ call.obj = "BranchPredictor" /\ call.op = "update"
    /\ predictor.type = "TOURNAMENT"
    /\ predictor.choiceTable # EmptyTable
    /\ predictor.stats.correctPredictions >= 1
    /\ predictor.stats.mispredictions >= 1

---------------------------------------------------------------------------
(* Claims about reset, checked under BranchSpec *)

\* the step is a call of reset() on the MIPSSimulator / on the MIPS object
SimWasReset == call'.obj = "MIPSSimulator" /\ call'.op = "reset"
MipsWasReset == call'.obj = "MIPS" /\ call'.op = "reset"

\* C15: reset() returns the core to its initial state and preserves the
\* configuration: registers as constructed (zero, $sp and $gp at their
\* defaults), counters zero, every pipeline latch invalid, PC at the program
\* base, the predictor's table and statistics as freshly constructed; the
\* pipeline-enabled flag and the predictor choice as they were.
C15_ResetRestoresInitialState ==
    [][/\ SimWasReset =>
            /\ sim'.registers = NewSim.registers
            /\ sim'.pc = NewSim.pc
            /\ ~sim'.halted
            /\ \A i \in 0..4 : ~sim'.pipeline_stages[i].valid
            /\ sim'.branch_stats = NewSim.branch_stats
            /\ sim'.branch_history_table = NewSim.branch_history_table
            /\ sim'.pipeline_enabled = sim.pipeline_enabled
            /\ sim'.branch_prediction_enabled = sim.branch_prediction_enabled
            /\ sim'.prediction_type = sim.prediction_type
       /\ MipsWasReset =>
            /\ mips'.registers = NewMIPS.registers
            /\ mips'.pc = NewMIPS.pc
            /\ mips'.cycleCount = 0 /\ mips'.instructionCount = 0
            /\ pipeline' = NewPipeline
            /\ mips'.pipelineEnabled = mips.pipelineEnabled]_vars

---------------------------------------------------------------------------
(* Claims about the memory accessors, checked under MemSpec *)

\* the size of the memory the call's object owns
memoryBytes == IF call'.obj = "MIPSSimulator" THEN SIM_MEMORY_SIZE ELSE MIPS_MEMORY_SIZE

\* the four bytes a..a+3 do not all lie inside [0, size), a being the
\* unsigned address (the images below 0 are the addresses from 2^31 on)
wordOutside(a, size) == a < 0 \/ a + 3 >= size

byteOutside(a, size) == a < 0 \/ a >= size

WordRead == call'.op \in {"getMemoryWord", "getMemory"}
WordWritten == call'.op \in {"setMemoryWord", "setMemory"}

\* C16: an out-of-range access is harmless: a word read at an address whose
\* four bytes are not all inside the memory returns 0, a word write there
\* changes no byte, also where a + 3 wraps around 2^32; the same for byte
\* accesses at a >= memory_bytes.  No such call ends the process.
C16_OutOfRangeHarmless ==
    [][/\ ~call'.crashed
       /\ (WordRead /\ wordOutside(call'.address, memoryBytes)) => call'.ret = 0
       /\ (WordWritten /\ wordOutside(call'.address, memoryBytes)) =>
                mips'.memory = mips.memory /\ sim'.memory = sim.memory
       /\ (call'.op = "getMemoryByte" /\ byteOutside(call'.address, memoryBytes)) =>
                call'.ret = 0
       /\ (call'.op = "setMemoryByte" /\ byteOutside(call'.address, memoryBytes)) =>
                mips'.memory = mips.memory]_vars

\* C17: big-endian round trip: after a word store of v at an in-range
\* address a, the bytes at a, a+1, a+2, a+3 are v's bytes from most to least
\* significant (read through getMemoryByte where the class has it), a word
\* load at a returns v, and no byte outside a..a+3 has changed.
C17_BigEndianRoundTrip ==
    [][(WordWritten /\ ~wordOutside(call'.address, memoryBytes)) =>
        LET a == call'.address
            v == call'.value
            ofSim == call'.obj = "MIPSSimulator"
            before == IF ofSim THEN sim.memory ELSE mips.memory
            after == IF ofSim THEN sim'.memory ELSE mips'.memory
            byteAt(x) == IF ofSim THEN memoryAt(after, x) ELSE MIPS_getMemoryByte(mips', x)
        IN  /\ byteAt(a) = (v \div 16777216) % 256
            /\ byteAt(a + 1) = (v \div 65536) % 256
            /\ byteAt(a + 2) = (v \div 256) % 256
            /\ byteAt(a + 3) = v % 256
            /\ (IF ofSim THEN Sim_getMemory(sim', a)
                ELSE IF call'.obj = "MIPS" THEN MIPS_getMemoryWord(mips', a)
                ELSE Pipeline_getMemoryWord(mips'.memory, a)) = v
            /\ \A x \in (DOMAIN before \cup DOMAIN after) \ {a, a + 1, a + 2, a + 3} :
                    memoryAt(after, x) = memoryAt(before, x)]_vars

\* 0x11223344 has been stored at 0x0100 over another word and reads back
\* as 0x11, 0x22, 0x33, 0x44
C17_StoredAt0x0100 ==
    /\ call.obj = "MIPS" /\ call.op = "setMemoryWord"
    /\ call.address = 256 /\ call.value = 287454020
    /\ MIPS_getMemoryByte(mips, 256) = 17 /\ MIPS_getMemoryByte(mips, 257) = 34
    /\ MIPS_getMemoryByte(mips, 258) = 51 /\ MIPS_getMemoryByte(mips, 259) = 68
    /\ DOMAIN mips.memory # {256, 257, 258, 259}

---------------------------------------------------------------------------
(* Claims about loading, checked under LoadSpec and Spec *)

\* the lines the loader does not skip
tokens(program) == SelectSeq(program, LAMBDA line : line # << >> /\ line[1] # "#")

hasNonHexToken(program) ==
    \E k \in 1..Len(program) :
        /\ program[k] # << >>
        /\ program[k][1] # "#"
        /\ \E i \in 1..Len(program[k]) : ~isHexDigit(program[k][i])

hasTooManyWords(program) == Len(tokens(program)) * 4 > SIM_MEMORY_SIZE

Loaded ==
    /\ call'.obj = "MIPSSimulator"
    /\ call'.op \in {"loadProgramFromString", "loadProgram"}
    /\ call'.opened

\* C18: a load of a program image that holds a non-hex token or more words
\* than fit in memory reports an error to its caller (it returns false and
\* does not end the process) and leaves the reset state: registers zero, pc
\* zero, halted clear.
C18_LoadErrorLeavesReset ==
    [][(Loaded /\ (hasNonHexToken(call'.program) \/ hasTooManyWords(call'.program))) =>
            /\ ~call'.thrown
            /\ call'.ret = FALSE
            /\ sim'.registers = [r \in 0..31 |-> 0]
            /\ sim'.pc = 0
            /\ ~sim'.halted]_vars

\* the words of a text whose tokens are hex numerals
wordsOf(program) == [k \in 1..Len(tokens(program)) |-> stoul(tokens(program)[k]).value]

\* byte j, counted from the most significant, of the word v
byteOfWord(v, j) ==
    CASE j = 0 -> (v \div 16777216) % 256
      [] j = 1 -> (v \div 65536) % 256
      [] j = 2 -> (v \div 256) % 256
      [] j = 3 -> v % 256

\* memory holds the words contiguously from base, and 0 everywhere else
holdsExactly(mem, words, base) ==
    \A a \in DOMAIN mem \cup {base + i : i \in 0..(4 * Len(words) - 1)} :
        memoryAt(mem, a) =
            IF a >= base /\ a < base + 4 * Len(words)
            THEN byteOfWord(words[(a - base) \div 4 + 1], (a - base) % 4)
            ELSE 0

\* C19: after a load of the words w0..wn-1, from any state, memory holds
\* exactly those words from the program base on and nothing of an earlier
\* program or store, the registers and the pipeline latches are in their
\* reset state, and pc is the program base.
C19_LoadClearsState ==
    [][/\ (call'.obj = "MIPS" /\ call'.op = "loadProgram") =>
            /\ holdsExactly(mips'.memory, mips'.instructions, TEXT_BASE)
            /\ mips'.registers = InitialRegisters
            /\ mips'.pc = TEXT_BASE
       /\ (Loaded /\ ~hasNonHexToken(call'.program) /\ ~hasTooManyWords(call'.program)) =>
            /\ holdsExactly(sim'.memory, wordsOf(call'.program), 0)
            /\ sim'.registers = [r \in 0..31 |-> 0]
            /\ sim'.pipeline_stages = initializePipeline
            /\ sim'.pc = 0]_vars

---------------------------------------------------------------------------
(* Claims about unmapped instructions, checked under UnknownSpec *)

isUnknown(instr) == instr.format = "UNKNOWN"

\* the step is a Pipeline::tick, called directly or by MIPS::step
PipelineTicks ==
    \/ call'.obj = "Pipeline" /\ call'.op = "tick"
    \/ /\ call'.obj = "MIPS" /\ call'.op = "step"
       /\ mips.pipelineEnabled /\ ~programEnded(mips)

\* the step is a MIPS::step that runs executeSingleCycle
SingleCycleSteps ==
    /\ call'.obj = "MIPS" /\ call'.op = "step"
    /\ ~mips.pipelineEnabled /\ ~programEnded(mips)

\* the step is a MIPSSimulator::step that runs executeInstruction
SimExecutes ==
    /\ call'.obj = "MIPSSimulator" /\ call'.op = "step"
    /\ ~returnsEarly(sim) /\ ~sim.pipeline_enabled /\ isValidAddress(sim.pc)

\* C20: an instruction decoded as UNKNOWN changes no register and no memory
\* byte: not in the pipeline, where the tick that has it in MEM_WB writes
\* the registers and the tick that has it in EX_MEM writes memory, and not
\* in the single-cycle path, where it only moves pc to the next word.
C20_UnknownNeverExecutes ==
    [][/\ (PipelineTicks /\ pipeline.MEM_WB.valid /\ isUnknown(pipeline.MEM_WB.instruction))
            => mips'.registers = mips.registers
       /\ (PipelineTicks /\ pipeline.EX_MEM.valid /\ isUnknown(pipeline.EX_MEM.instruction))
            => mips'.memory = mips.memory
       /\ (SingleCycleSteps /\ isUnknown(decode(MIPS_getMemoryWord(mips, mips.pc))))
            => /\ mips'.registers = mips.registers
               /\ mips'.memory = mips.memory
               /\ mips'.pc = Add32(mips.pc, 4)
       /\ (SimExecutes /\ isUnknown(decode(readWord(sim.memory, sim.pc))))
            => /\ sim'.registers = sim.registers
               /\ sim'.memory = sim.memory
               /\ sim'.pc = Add32(sim.pc, 4)]_vars

---------------------------------------------------------------------------
(* Claims about decoding, checked under DecodeSpec *)

\* bits 31..26 and bits 5..0 of a word
opcodeOf(word) == UHi(word) \div 1024
functOf(word) == Lo(word) % 64

\* the funct values (with opcode 0) and the opcodes that have an operation
MappedFuncts == {32, 34, 36, 37, 39, 42, 0, 2, 3, 8, 9}
MappedOpcodes == {8, 12, 13, 14, 10, 35, 33, 32, 36, 37, 43, 41, 40, 4, 5, 6, 7, 15, 2, 3}

unmapped(word) ==
    IF opcodeOf(word) = 0 THEN functOf(word) \notin MappedFuncts
    ELSE opcodeOf(word) \notin MappedOpcodes

Decoded == call'.obj = "InstructionDecoder" /\ call'.op = "decode"

\* C21: the word 0x00000000 decodes as NOP, which reads and writes no
\* register and is not counted by MIPS::step as a retired instruction; a
\* word whose opcode / funct pair has no operation decodes as UNKNOWN.
C21_DecodeSpecialWords ==
    [][/\ (Decoded /\ call'.word = 0) =>
            /\ call'.ret.format = "NOP"
            /\ ~usesRS(call'.ret) /\ ~usesRT(call'.ret)
            /\ ~writesRD(call'.ret) /\ ~writesRT(call'.ret)
       /\ (Decoded /\ unmapped(call'.word)) => call'.ret.format = "UNKNOWN"
       /\ (/\ call'.obj = "MIPS" /\ call'.op = "step" /\ ~programEnded(mips)
           /\ MIPS_getMemoryWord(mips, mips.pc) = 0)
            => mips'.instructionCount = mips.instructionCount]_vars

ROps == {"ADD", "SUB", "AND", "OR", "NOR", "XOR", "SLT", "SLTU", "SLL", "SRL", "SRA",
         "JR", "JALR"}
JOps == {"J", "JAL"}

Assembled == call'.obj = "InstructionDecoder" /\ call'.op = "assembleProgram"

\* C22: decoding the word an operation and its fields are encoded to gives
\* the same operation tag and the same fields (rs, rt, rd for the R-type
\* operations and shamt for the shifts, jump target for J and JAL, rs, rt,
\* immediate for the others), with type R exactly for opcode 0 and type J
\* exactly for J and JAL.
C22_DecodeEncodeRoundTrip ==
    [][Assembled =>
        LET i == call'.ret
            f == call'.operands
            tag == call'.mnemonic
        IN  /\ i.format = tag
            /\ (i.type = "R_TYPE") <=> (i.opcode = 0)
            /\ (i.type = "J_TYPE") <=> (tag \in JOps)
            /\ tag \in ROps => i.rs = f.rs /\ i.rt = f.rt /\ i.rd = f.rd
            /\ tag \in {"SLL", "SRL", "SRA"} => i.shamt = f.shamt
            /\ tag \in JOps => i.jumpTarget = f.jumpTarget
            /\ tag \notin ROps \cup JOps \cup {"NOP"} =>
                    i.rs = f.rs /\ i.rt = f.rt /\ i.immediate = f.immediate]_vars


---------------------------------------------------------------------------
(* Claims about the scenario programs, checked under ScenSpec *)

\* the words of the program are in the simulator's memory from address 0 on
simHolds(words) == \A k \in 1..Len(words) : readWord(sim.memory, 4 * (k - 1)) = words[k]

\* the results of S1: $v0 = 5, $v1 = 3, $a0 = 8
S1Results(registers) == registers[2] = 5 /\ registers[3] = 3 /\ registers[4] = 8

\* C23: scenario S1 with the pipeline enabled.  Nine cycles after the load
\* (the pipeline has drained by then, stalls or not) the registers hold
\* $v0 = 5, $v1 = 3, $a0 = 8; the MIPS object has retired 3 instructions
\* and its run does not go beyond nine cycles.  This holds for the MIPS
\* object, for a Pipeline handed the three instructions and then nops, and
\* for the MIPSSimulator under any predictor setting.
C23_ScenarioS1 ==
    /\ (call.obj = "MIPS" /\ mips.instructions = S1Program /\ mips.pipelineEnabled)
       => /\ mips.cycleCount <= 9
          /\ mips.cycleCount = 9
             => S1Results(mips.registers) /\ mips.instructionCount = 3
    /\ (call.obj = "Pipeline" /\ mips.instructions = S1Program /\ Len(fed) = 9)
       => S1Results(mips.registers)
    /\ (call.obj = "MIPSSimulator" /\ simHolds(S1Program) /\ sim.pipeline_enabled
        /\ call.passes = 9)
       => S1Results(sim.registers)

\* C24: scenario S5, a jal to a leaf routine that returns with jr $ra.
\* With the jal at pc_of_jal, the first pass of a non-pipelined run enters
\* the routine with $ra = pc_of_jal + 8 and the second pass returns to
\* pc_of_jal + 8; in the pipelined paths $ra = pc_of_jal + 8 once the jal
\* has had nine cycles to go through the pipeline.
C24_ScenarioS5 ==
    /\ (call.obj = "MIPSSimulator" /\ simHolds(S5SimProgram))
       => IF sim.pipeline_enabled
          THEN call.passes = 9 => sim.registers[31] = 8
          ELSE /\ call.passes = 1 => sim.pc = 16 /\ sim.registers[31] = 8
               /\ call.passes = 2 => sim.pc = 8
    /\ (call.obj = "MIPS" /\ mips.instructions = S5MipsProgram)
       => IF mips.pipelineEnabled
          THEN call.passes = 9 => mips.registers[31] = TEXT_BASE + 8
          ELSE /\ call.passes = 1 => /\ mips.pc = TEXT_BASE + 16
                                     /\ mips.registers[31] = TEXT_BASE + 8
               /\ call.passes = 2 => mips.pc = TEXT_BASE + 8
    /\ (call.obj = "Pipeline" /\ mips.instructions = S5MipsProgram /\ Len(fed) = 9)
       => mips.registers[31] = TEXT_BASE + 8

\* C25: scenario S3, the loop addi $t0, $t0, 1; bne $t0, $t1, -2 with
\* $t1 = 10, run with the pipeline disabled.  While the loop runs BTFN has
\* mispredicted nothing; once it has ended, the BTFNPredictor that was told
\* every branch holds total == 10 and mispredicted == 1, and so do the
\* branch statistics of the simulator that executed the loop with branch
\* prediction enabled and the type btfn.
C25_ScenarioS3 ==
    (call.obj = "MIPSSimulator" /\ simHolds(S3Program) /\ ~sim.pipeline_enabled)
    => /\ sim.pc <= 8 => predictor.stats.mispredictions = 0
       /\ sim.halted
          => /\ predictor.stats.totalBranches = 10
             /\ predictor.stats.mispredictions = 1
             /\ (sim.branch_prediction_enabled /\ sim.prediction_type = "btfn")
                => /\ sim.branch_stats.total_branches = 10
                   /\ sim.branch_stats.incorrect_predictions = 1

---------------------------------------------------------------------------
(* Claims about the 2-bit predictors on a pattern, checked under PatternSpec *)

\* C26: scenario S4.  For one branch whose outcomes repeat T, T, T, N a
\* 2-bit predictor starts at WNT, is at WT after the first outcome, which
\* it mispredicted, at ST after the second, and after 32 occurrences has
\* counted more than 20 correct predictions.
C26_ScenarioS4 ==
    LET counter == selectedCounter(predictor, predictor, call.pc)
        stats == Predictor_stats(predictor)
    IN  /\ call.occurrences = 0 => counter = WEAKLY_NOT_TAKEN
        /\ call.occurrences = 1 => counter = WEAKLY_TAKEN /\ stats.mispredicted = 1
        /\ call.occurrences = 2 => counter = STRONGLY_TAKEN
        /\ call.occurrences = 32 => stats.correct > 20

\* the map-based predictor has been told all 32 occurrences, each after a
\* predict, and was right 23 times
C26_ThirtyTwoOccurrences ==
    /\ call.op = "update"
    /\ call.occurrences = 32
    /\ predictor.type = "BranchPredictor"
    /\ predictor.stats.total_predictions = 32
    /\ predictor.stats.correct_predictions = 23
    /\ predictor.stats.incorrect_predictions = 9

---------------------------------------------------------------------------
(* Claims about the ALU, checked under AluSpec *)

\* the signed sum a + b lies outside [-2^31, 2^31 - 1]
sumOverflows(a, b) ==
    \/ a >= 0 /\ b >= 0 /\ a > INT32_MAX - b
    \/ a < 0 /\ b < 0 /\ a < INT32_MIN - b

\* the signed difference a - b lies outside [-2^31, 2^31 - 1]
differenceOverflows(a, b) ==
    \/ a >= 0 /\ b < 0 /\ a > INT32_MAX + b
    \/ a < 0 /\ b >= 0 /\ a < INT32_MIN + b

\* a + b modulo 2^32, as a signed image
sumMod32(a, b) ==
    IF ~sumOverflows(a, b) THEN a + b
    ELSE IF a >= 0 THEN (a + INT32_MIN) + (b + INT32_MIN)
    ELSE (a - INT32_MIN) + (b - INT32_MIN)

\* a - b modulo 2^32, as a signed image
differenceMod32(a, b) ==
    IF ~differenceOverflows(a, b) THEN a - b
    ELSE IF a >= 0 THEN (a + INT32_MIN) - (b - INT32_MIN)
    ELSE (a - INT32_MIN) - (b + INT32_MIN)

\* C27: ADD and SUB return the sum and the difference modulo 2^32, and the
\* overflow flag is set exactly when the signed sum or difference is not
\* representable in 32 bits, for every pair of operands, those with
\* b = 0x80000000 included.
C27_AddSubOverflow ==
    LET a == call.operand1
        b == call.operand2
    IN  /\ call.operation = "ADD"
           => /\ call.result.value = sumMod32(a, b)
              /\ call.result.overflow = sumOverflows(a, b)
        /\ call.operation = "SUB"
           => /\ call.result.value = differenceMod32(a, b)
              /\ call.result.overflow = differenceOverflows(a, b)

---------------------------------------------------------------------------
(* Claims about the program counter in pipelined mode, checked under Spec *)

\* C28: PC progression and redirect.  Across a step() of the MIPS object
\* with the pipeline enabled whose tick did not stall, pc becomes the
\* corrected address pc_of_branch + 4 + (imm << 2) when EX resolved a
\* branch as taken (the fetch stage having gone on sequentially), and
\* pc + 4 when no branch was resolved as taken.
C28_PCProgression ==
    [][(MipsStepped /\ mips.pipelineEnabled /\ ~programEnded(mips)
        /\ ~lastTick'.stalled)
       => IF lastTick'.taken
          THEN mips'.pc = branchAddress(pipeline.ID_EX.pc,
                                        pipeline.ID_EX.instruction.signedImmediate)
          ELSE mips'.pc = Add32(mips.pc, 4)]_vars

---------------------------------------------------------------------------
(* Claims about the operands of EX, checked under PipeSpec *)

\* the latch holds a valid instruction that writes register r, r not $zero
latchWrites(latch, r) ==
    /\ r # 0
    /\ latch.valid
    /\ latch.regWrite
    /\ latch.writeReg = r

\* the operand the priority EX/MEM > MEM/WB > register file selects for
\* source register r at the start of a tick
priorityOperand(p, registers, r) ==
    IF latchWrites(p.EX_MEM, r) THEN p.EX_MEM.aluResult
    ELSE IF latchWrites(p.MEM_WB, r) THEN p.MEM_WB.writeData
    ELSE registers[r]

\* C29: forwarding priority.  In a tick whose EX stage runs, each register
\* operand of the instruction leaving ID/EX is the ALU result held in
\* EX/MEM when the instruction there writes that register (a load's value
\* is not there yet and is left out), else the write data held in MEM/WB
\* when the instruction there writes it, else the register file's value;
\* register 0 and invalid or non-matching latches forward nothing.
C29_ForwardingPriority ==
    [][(Ticked /\ lastTick'.exRan)
       => LET instr == pipeline.ID_EX.instruction
              loadAhead(r) == latchWrites(pipeline.EX_MEM, r)
                              /\ isLoad(pipeline.EX_MEM.instruction)
          IN  /\ ~loadAhead(instr.rs)
                 => lastTick'.op1 = priorityOperand(pipeline, mips.registers, instr.rs)
              /\ (instr.type = "R_TYPE" /\ ~loadAhead(instr.rt))
                 => lastTick'.op2 = priorityOperand(pipeline, mips.registers, instr.rt)]_vars

\* the outcome of a BEQ or BNE on the register values given
branchOutcome(instr, registers) ==
    IF instr.format = "BEQ" THEN registers[instr.rs] = registers[instr.rt]
    ELSE registers[instr.rs] # registers[instr.rt]

\* C30: branch resolution in EX.  In a tick whose EX stage runs a BEQ or a
\* BNE, the branch is resolved taken exactly when the values of rs and rt
\* are equal (BEQ) or differ (BNE), and its successor, pc + 4 + (imm << 2)
\* when taken and pc + 4 when not, is the pc the non-pipelined interpreter
\* reaches from the same pc and register values.
C30_BranchResolution ==
    [][(Ticked /\ lastTick'.exRan /\ pipeline.ID_EX.instruction.format \in {"BEQ", "BNE"})
       => LET instr == pipeline.ID_EX.instruction
              pc == pipeline.ID_EX.pc
              successor == IF lastTick'.taken
                           THEN branchAddress(pc, instr.signedImmediate)
                           ELSE Add32(pc, 4)
              interpreter == executeSingleCycle(
                                 [mips EXCEPT !.registers = mips'.registers, !.pc = pc],
                                 instr)
          IN  /\ lastTick'.taken = branchOutcome(instr, mips'.registers)
              /\ successor = interpreter.pc]_vars

---------------------------------------------------------------------------
(* Claims about flushes, write registers, stalls and draining of the latch *)
(* pipeline, checked under PipeSpec                                        *)

\* the tick taken has run a conditional branch through EX (executeEX leaves
\* the instruction it ran in EX/MEM)
resolvedBranch ==
    /\ Ticked
    /\ lastTick'.exRan
    /\ isBranch(pipeline'.EX_MEM.instruction)

\* the tick taken has flushed: IF/ID and ID/EX are bubbles and one flush is
\* counted
flushedBoth ==
    /\ pipeline'.flushCycles = pipeline.flushCycles + 1
    /\ ~pipeline'.IF_ID.valid
    /\ ~pipeline'.ID_EX.valid

\* the tick taken has not flushed: no flush is counted and the instruction
\* that was in IF/ID has moved on into ID/EX
flushedNothing ==
    /\ pipeline'.flushCycles = pipeline.flushCycles
    /\ pipeline.IF_ID.valid
       => /\ pipeline'.ID_EX.valid
          /\ pipeline'.ID_EX.instruction = pipeline.IF_ID.instruction

\* C31: flush only on misprediction.  Whatever was predicted for the branch,
\* a flush is counted only in a tick in which EX resolved a conditional
\* branch, and such a tick either flushes IF/ID and ID/EX and counts one
\* flush (the outcome disagrees with the prediction) or counts none and
\* leaves no bubble (the outcome agrees).
C31_FlushOnlyOnMisprediction ==
    [][Ticked =>
        /\ pipeline'.flushCycles # pipeline.flushCycles => resolvedBranch
        /\ resolvedBranch => (flushedBoth \/ flushedNothing)]_vars

---------------------------------------------------------------------------
(* Claims about single instructions in the latch pipeline, checked under   *)
(* IdSpec                                                                  *)

\* the opcodes of the immediate ALU operations and LUI
ImmediateAluOpcodes == {8, 9, 12, 13, 14, 10, 11, 15}

\* the R-type ALU operations
RAluFormats == {"ADD", "SUB", "AND", "OR", "NOR", "SLT", "SLL", "SRL", "SRA"}

\* the write register of an instruction: its kind is "write" or "none"
writeRegister(instr) ==
    CASE instr.type = "R_TYPE" /\ instr.format \in RAluFormats ->
            [kind |-> "write", reg |-> instr.rd]
      [] instr.type = "I_TYPE"
           /\ (isLoad(instr) \/ instr.opcode \in ImmediateAluOpcodes) ->
            [kind |-> "write", reg |-> instr.rt]
      [] instr.format = "JAL" -> [kind |-> "write", reg |-> 31]
      [] OTHER -> [kind |-> "none", reg |-> 0]

\* the instruction the driver handed over is the one ID has just decoded
InID ==
    /\ Len(fed) = 2
    /\ pipeline.ID_EX.valid
    /\ pipeline.ID_EX.instruction = decode(call.word)

\* C32: write-register determination in ID.  When ID has decoded the
\* instruction, reg-write is set with rd for an R-type ALU operation, rt for
\* a load, an immediate ALU operation or LUI, and 31 for JAL; for a branch,
\* a store, J and JR reg-write is clear and the register file is never
\* written.
C32_WriteRegister ==
    LET instr == decode(call.word)
        w == writeRegister(instr)
    IN  /\ (InID /\ w.kind = "write")
           => (pipeline.ID_EX.regWrite /\ pipeline.ID_EX.writeReg = w.reg)
        /\ (InID /\ w.kind = "none") => ~pipeline.ID_EX.regWrite
        /\ w.kind = "none" => mips.registers = IdRegisters

\* C33: effect of a stall cycle.  A tick that takes the load-use stall
\* leaves IF/ID as it was and ID/EX a bubble, while the instruction in
\* EX/MEM still passes MEM into MEM/WB and the one in MEM/WB still writes
\* its register in WB.
C33_StallEffect ==
    [][(Ticked /\ lastTick'.stalled) =>
        /\ pipeline'.IF_ID = pipeline.IF_ID
        /\ ~pipeline'.ID_EX.valid
        /\ pipeline.EX_MEM.valid
           => /\ pipeline'.MEM_WB.valid
              /\ pipeline'.MEM_WB.instruction = pipeline.EX_MEM.instruction
              /\ ~pipeline'.EX_MEM.valid
        /\ (pipeline.MEM_WB.valid /\ latchWrites(pipeline.MEM_WB, pipeline.MEM_WB.writeReg))
           => mips'.registers[pipeline.MEM_WB.writeReg] = pipeline.MEM_WB.writeData]_vars

---------------------------------------------------------------------------
(* Claims about the tournament predictor, checked under TournSpec *)

\* the step is a call of TournamentPredictor::update
TournUpdated == call'.obj = "TournamentPredictor" /\ call'.op = "update"

\* the chooser entry of index i
chooser(p, i) == tableAt(p.choiceTable, i, 1)

\* C34: tournament chooser update.  update(pc, taken) moves the chooser
\* counter at index (pc >> 2) mod table size up by one (3 stays 3) iff the
\* gshare member's prediction before the update was right and the local
\* member's wrong, down by one (0 stays 0) iff the local one was right and
\* the gshare one wrong, and leaves it otherwise; no other chooser entry
\* changes, and both members are updated with the outcome in every case.
C34_ChooserUpdate ==
    [][TournUpdated =>
        LET pc == call'.pc
            taken == call'.taken
            i == Shr2(pc) % predictor.choiceTableSize
            globalRight == GsharePredictor_predict(predictor.globalPredictor, pc, 0) = taken
            localRight == LocalHistoryPredictor_predict(predictor.localPredictor, pc, 0) = taken
            before == chooser(predictor, i)
            after == chooser(predictor', i)
        IN  /\ (globalRight /\ ~localRight)
               => after = (IF before = 3 THEN 3 ELSE before + 1)
            /\ (localRight /\ ~globalRight)
               => after = (IF before = 0 THEN 0 ELSE before - 1)
            /\ (globalRight = localRight) => after = before
            /\ \A j \in 0..(predictor.choiceTableSize - 1) :
                j # i => chooser(predictor', j) = chooser(predictor, j)
            /\ predictor'.globalPredictor
                    = GsharePredictor_update(predictor.globalPredictor, pc, taken, 0)
            /\ predictor'.localPredictor
                    = LocalHistoryPredictor_update(predictor.localPredictor, pc, taken, 0)]_vars

\* an update has found the chooser entry at 0 with the local member right
\* and the gshare member wrong, and has left it at 0
C34_ChooserHeldAtZero ==
    /\ call.obj = "TournamentPredictor" /\ call.op = "update"
    /\ call.choice = 0
    /\ call.localPrediction = call.taken
    /\ call.globalPrediction # call.taken
    /\ chooser(predictor, Shr2(call.pc) % predictor.choiceTableSize) = 0

\* the chooser entry selects the gshare (global) member
selectsGlobal(counter) == counter >= 2

\* C35: a fresh or reset tournament predictor weakly prefers the global
\* member.  After construction and after reset every chooser entry selects
\* the gshare member, and predict(pc) on an entry that holds its initial
\* value returns the gshare member's prediction.
C35_InitiallyPrefersGlobal ==
    LET i == Shr2(call.pc) % predictor.choiceTableSize
    IN  /\ call.op \in {"create", "reset"}
           => \A j \in 0..(predictor.choiceTableSize - 1) :
                  selectsGlobal(chooser(predictor, j))
        /\ (call.op = "predict" /\ chooser(predictor, i) = chooser(TournamentPredictor_reset(predictor), i))
           => call.ret = GsharePredictor_predict(predictor.globalPredictor, call.pc, 0)

---------------------------------------------------------------------------
(* Claims about histories and table indices, checked under HistSpec *)

\* the step is a call of update
HistUpdated == call'.obj = "BranchPredictor" /\ call'.op = "update"

RECURSIVE lastOutcomes(_, _)
\* the last h of the outcomes as a number, the most recent in bit 0
lastOutcomes(outcomes, h) ==
    IF h = 0 \/ outcomes = << >> THEN 0
    ELSE (IF outcomes[Len(outcomes)] THEN 1 ELSE 0)
         + 2 * lastOutcomes(SubSeq(outcomes, 1, Len(outcomes) - 1), h - 1)

\* the gshare predictor of p: p itself or the global member of a tournament
gshareOf(p) == IF p.type = "TOURNAMENT" THEN p.globalPredictor ELSE p

hasGshare(p) == p.type \in {"GSHARE", "TOURNAMENT"}

\* the history register holds the last h outcomes
holdsLastOutcomes(g, outcomes) ==
    /\ g.globalHistory = lastOutcomes(outcomes, g.historyBits)
    /\ g.globalHistory < Pow2(g.historyBits)

\* C36: gshare history.  After any sequence of updates the global history
\* register holds the last h outcomes, the most recent in bit 0, and is
\* below 2^h; update(pc, taken) steps the counter predict(pc) consulted just
\* before, the one indexed with the history before the update, and no other.
C36_GshareHistory ==
    [][hasGshare(predictor) =>
        /\ holdsLastOutcomes(gshareOf(predictor'), fed')
        /\ HistUpdated =>
            \A g \in {gshareOf(predictor)} : \A h \in {gshareOf(predictor')} :
            \A i \in {GsharePredictor_getIndex(g, call'.pc)} :
                /\ GsharePredictor_predict(g, call'.pc, 0) = (tableAt(g.table, i, 1) >= 2)
                /\ tableAt(h.table, i, 1) = saturate(tableAt(g.table, i, 1), call'.taken)
                /\ \A j \in 0..(g.tableSize - 1) :
                    j # i => tableAt(h.table, j, 1) = tableAt(g.table, j, 1)]_vars

\* a gshare predictor of two history bits has seen a taken outcome leave its
\* history, which now holds not taken, taken
C36_OutcomeShiftedOut ==
    /\ predictor.type = "GSHARE"
    /\ predictor.historyBits = 2
    /\ Len(fed) >= 3
    /\ fed[Len(fed) - 2]
    /\ predictor.globalHistory = 1
    /\ call.op = "update"

\* every index p computes for the branch at pc lies inside the table it
\* indexes; the pattern index is the one derived from the stored history
RECURSIVE indexInBounds(_, _)
indexInBounds(p, pc) ==
    CASE p.type \in {"BIMODAL_1BIT", "BIMODAL_2BIT"} ->
            BimodalPredictor_getIndex(p, pc) \in 0..(p.tableSize - 1)
      [] p.type = "GSHARE" ->
            GsharePredictor_getIndex(p, pc) \in 0..(p.tableSize - 1)
      [] p.type = "LOCAL_HISTORY" ->
            \A localIndex \in {LocalHistoryPredictor_getLocalIndex(p, pc)} :
                /\ localIndex \in 0..(p.localTableSize - 1)
                /\ LocalHistoryPredictor_getPatternIndex(p,
                        tableAt(p.localHistoryTable, localIndex, 0))
                    \in 0..(p.patternTableSize - 1)
      [] p.type = "TOURNAMENT" ->
            /\ TournamentPredictor_getChoiceIndex(p, pc) \in 0..(p.choiceTableSize - 1)
            /\ indexInBounds(p.globalPredictor, pc)
            /\ indexInBounds(p.localPredictor, pc)
      [] OTHER -> TRUE

\* C37: table indices stay in bounds.  After any sequence of updates and for
\* every pc, the index of the bimodal, gshare, local-history (history table
\* and pattern table) and tournament chooser tables is at least 0 and below
\* the size of the table, for the table-size parameters of HistParams and
\* the 12 and 10 bits of the tournament's members.
C37_IndicesInBounds == \A pc \in HistPCs : indexInBounds(predictor, pc)

\* a gshare predictor whose history is wider than its index has a history of
\* all ones and was updated for the branch at 0xFFFFFFFC
C37_HistoryWiderThanIndex ==
    /\ predictor.type = "GSHARE"
    /\ predictor.historyBits > predictor.indexBits
    /\ predictor.globalHistory = Pow2(predictor.historyBits) - 1
    /\ call.op = "update"
    /\ call.pc = -4

---------------------------------------------------------------------------
(* Claims about the two decode tables, checked under DecodeSpec *)

\* the constants of namespace MIPS the interpreter has no case for
OPCODE_RTYPE == 0
FUNCT_ADDU == 33
FUNCT_SUBU == 35
FUNCT_XOR == 38
FUNCT_NOR == 39
FUNCT_SLTU == 41
FUNCT_SLL == 0
FUNCT_SRL == 2
FUNCT_SRA == 3
OPCODE_ADDIU == 9
OPCODE_ANDI == 12
OPCODE_ORI == 13
OPCODE_XORI == 14
OPCODE_LUI == 15
OPCODE_SLTI == 10
OPCODE_SLTIU == 11

\* the operation namespace MIPS names by the constant of this opcode and
\* funct, "UNKNOWN" where it has no constant
constantOperation(opcode, funct) ==
    IF opcode = OPCODE_RTYPE THEN
        CASE funct = FUNCT_ADD -> "ADD"
          [] funct = FUNCT_ADDU -> "ADDU"
          [] funct = FUNCT_SUB -> "SUB"
          [] funct = FUNCT_SUBU -> "SUBU"
          [] funct = FUNCT_AND -> "AND"
          [] funct = FUNCT_OR -> "OR"
          [] funct = FUNCT_XOR -> "XOR"
          [] funct = FUNCT_NOR -> "NOR"
          [] funct = FUNCT_SLT -> "SLT"
          [] funct = FUNCT_SLTU -> "SLTU"
          [] funct = FUNCT_SLL -> "SLL"
          [] funct = FUNCT_SRL -> "SRL"
          [] funct = FUNCT_SRA -> "SRA"
          [] funct = FUNCT_JR -> "JR"
          [] OTHER -> "UNKNOWN"
    ELSE
        CASE opcode = OPCODE_ADDI -> "ADDI"
          [] opcode = OPCODE_ADDIU -> "ADDIU"
          [] opcode = OPCODE_ANDI -> "ANDI"
          [] opcode = OPCODE_ORI -> "ORI"
          [] opcode = OPCODE_XORI -> "XORI"
          [] opcode = OPCODE_LUI -> "LUI"
          [] opcode = OPCODE_LW -> "LW"
          [] opcode = OPCODE_SW -> "SW"
          [] opcode = OPCODE_BEQ -> "BEQ"
          [] opcode = OPCODE_BNE -> "BNE"
          [] opcode = OPCODE_SLTI -> "SLTI"
          [] opcode = OPCODE_SLTIU -> "SLTIU"
          [] opcode = OPCODE_J -> "J"
          [] opcode = OPCODE_JAL -> "JAL"
          [] OTHER -> "UNKNOWN"

\* call.word was decoded by InstructionDecoder::decode
WordDecoded == call.obj = "InstructionDecoder" /\ call.op \in {"decode", "assembleProgram"}

\* C38: the two decode tables agree.  Every word whose opcode and funct are
\* those of a constant of namespace MIPS, the table of the MIPSSimulator
\* interpreter, is decoded by InstructionDecoder::getInstructionFormat to
\* the operation of that constant.
C38_DecodeTablesAgree ==
    WordDecoded =>
        \A interpreted \in {decodeInstruction(call.word)} :
        \A operation \in {constantOperation(interpreted.opcode, interpreted.funct)} :
            operation # "UNKNOWN" =>
                getInstructionFormat(call.ret.opcode, call.ret.funct) = operation

---------------------------------------------------------------------------
(* Claims about the two execution paths, checked under ExSpec *)

\* the value MIPS::executeSingleCycle computes for the instruction: the
\* effective address of a load or store, else the value it writes to the
\* instruction's destination register
singleCycleValue(m, instr) ==
    IF instr.format \in {"LW", "SW"}
    THEN Add32(m.registers[instr.rs], instr.signedImmediate)
    ELSE executeSingleCycle(m, instr)
            .registers[IF instr.type = "R_TYPE" THEN instr.rd ELSE instr.rt]

\* the EX stage has just computed the value of the driver's instruction
InEX ==
    /\ lastTick.exRan
    /\ pipeline.EX_MEM.valid
    /\ pipeline.EX_MEM.instruction.machineCode = call.word

\* C39: per-operation agreement of the two execution paths.  For ADD, SUB,
\* AND, OR, NOR, SLT, ADDI, ANDI, ORI, LW and SW, any register operand
\* values and any 16-bit immediate, the value the EX stage computes (result
\* or effective address) is the value executeSingleCycle computes for the
\* same instruction.
C39_PathsAgree ==
    InEX => pipeline.EX_MEM.aluResult
                = singleCycleValue(mips, pipeline.EX_MEM.instruction)

---------------------------------------------------------------------------
(* Claims about draining, checked under DrainSpec *)

\* the tick ran the stages (it did not return at the stall)
StagesRan == Ticked /\ ~lastTick'.stalled

\* the instruction in MEM/WB leaves it at the WB stage of the tick: MEM/WB
\* is invalid after the tick unless EX/MEM handed it a newer instruction
leavesMEM_WB ==
    (pipeline.MEM_WB.valid /\ ~pipeline.EX_MEM.valid) => ~pipeline'.MEM_WB.valid

\* no address occurs twice in the sequence
noRepeat(s) == \A i, j \in 1..Len(s) : s[i] = s[j] => i = j

allInvalid(p) ==
    ~p.IF_ID.valid /\ ~p.ID_EX.valid /\ ~p.EX_MEM.valid /\ ~p.MEM_WB.valid

\* C40: latches drain.  Every instruction that reaches MEM/WB leaves it at
\* the next tick's WB stage, whether or not it writes a register; the
\* register write-back of each instruction is performed at most once; and
\* after four consecutive ticks in which no new valid instruction entered,
\* all four latches are invalid.
C40_LatchesDrain ==
    /\ [][StagesRan => leavesMEM_WB]_vars
    /\ [](noRepeat(call.written))
    /\ [](call.idle >= 4 => allInvalid(pipeline))

=======================================================================
